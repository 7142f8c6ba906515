--------------------------- MODULE MCAtlasAccount ---------------------------
(***************************************************************************)
(* What a night leans on: the Atlas account its jobs share, and the ration *)
(* of findings it re-tests.  They share no state, so a behaviour is one of *)
(* the account or one of the nights, with the other at rest.               *)
(*                                                                         *)
(* The account is scaled down: a cap of 10 for 100, three workers for five *)
(* (one more than the margin, as there could be), batches of 3 pings for   *)
(* 80.  Three findings are on file and one, whose upstream is quarantined, *)
(* is to come; half of those that take part are due a night, and one of    *)
(* them can never be fired.                                                *)
(***************************************************************************)
EXTENDS AtlasAccount

CONSTANTS w1, w2, w3, f1, f2, f3, f4, Finding, Filed, Quarantined, Stuck, Part, NoDataRequired

VARIABLES job, rank, noData, queue, parked, night, tonight

nightVars == <<rank, noData, queue, parked, night, tonight>>
mcVars == <<job, vars, nightVars>>

Nights == INSTANCE Rotation

MCInit ==
    /\ job \in {"account", "nights"}
    /\ Init /\ Nights!Init
    /\ job # "account" => inFlight = 0
    /\ job # "nights" => rank = <<f1, f2, f3>>

AccountNext == job = "account" /\ Next /\ UNCHANGED <<job, nightVars>>
NightNext == job = "nights" /\ Nights!Next /\ UNCHANGED <<job, vars>>

MCNext == AccountNext \/ NightNext

\* The fairness of each module, of the one that is not at rest.
InNights(A) == job = "nights" /\ A
MCSpec ==
    /\ MCInit /\ [][MCNext]_mcVars
    /\ WF_vars(Offshore) /\ \A w \in Worker : WF_vars(Trace(w))
    /\ SF_nightVars(InNights(Nights!Stage)) /\ WF_nightVars(InNights(Nights!EndNight))
    /\ \A f \in Finding :
        SF_nightVars(InNights(Nights!Settle(f))) /\ SF_nightVars(InNights(Nights!Fired(f)))

\* No finding is retested twice a night.
RetestedOnceANight == Nights!RetestedOnceANight

\* Every finding that can be retested is looked at again and again.
EveryFindingLookedAt == job = "nights" => Nights!EveryFindingLookedAt
=============================================================================
