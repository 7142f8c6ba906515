---------------------------- MODULE IxpRegistry ----------------------------
(***************************************************************************)
(* The registry of exchange LANs (ixp_lan_registry.json): which exchanges  *)
(* are in or out of the region, as the owner decides, and whether the LAN  *)
(* of each is known, as PeeringDB answers.  The weekly rebuild, the two    *)
(* ways the owner enters a decision, and pruning.                          *)
(*                                                                         *)
(* Nothing locks the file.  An operation that asks PeeringDB reads all of  *)
(* it first, makes paced requests for minutes, and writes all of it at the *)
(* end: begin it, and end it, with anybody's steps in between.  Entering a *)
(* decision about a listed exchange asks nothing and is one step.          *)
(*                                                                         *)
(* PeeringDB answers a rate-limited request with nothing, like a request   *)
(* about something it does not have; any other error ends the operation    *)
(* before it writes.                                                       *)
(***************************************************************************)
EXTENDS Naturals

CONSTANTS
    Ix,
    Local,      \* exchanges in an in-scope economy, each the only one of its own
    Decision    \* what the owner may decide: "in" or "out"

Operation == {<<"build">>, <<"prune">>} \cup ({"add"} \X Ix \X Decision)

VARIABLES
    registry,   \* the file: exchange -> [in |-> decision, lan |-> BOOLEAN]
    held,       \* operation under way -> the registry as it read it
    said        \* history: every decision of the owner, <<exchange, decision>>

registryVars == <<registry, held, said>>

TBA == "TBA"

RegistryInit ==
    /\ registry = [ix \in {} |-> {}] /\ held = [o \in {} |-> {}]
    /\ said = {}

load_ixp_lan_registry == registry
Listed(ix) == ix \in DOMAIN registry
HasLan(ix) == Listed(ix) /\ registry[ix].lan

Decide(ix, d) == said' = said \cup {<<ix, d>>}

Underway(o) == o \in DOMAIN held
Begin(o) ==
    /\ ~Underway(o)
    /\ held' = [p \in DOMAIN held \cup {o} |-> IF p = o THEN load_ixp_lan_registry ELSE held[p]]
    /\ UNCHANGED registry
End(o) ==
    /\ Underway(o)
    /\ held' = [p \in DOMAIN held \ {o} |-> held[p]]

KeptDecision(copy, ix) == IF ix \in DOMAIN copy THEN copy[ix].in ELSE TBA

\* Mutant of KeptLan: an empty answer replaces what is on record.
LanAsFetched(copy, ix, known, fetched) ==
    IF ix \in known THEN ix \in fetched ELSE copy[ix].lan

\* An empty answer does not replace a known LAN.
KeptLan(copy, ix, known, fetched) ==
    ix \in known \cap fetched \/ (ix \in DOMAIN copy /\ copy[ix].lan)

\* Known by the membership of tracked ASNs, as fishbowl.json has it, or by the
\* country it is in; an exchange known neither way stays as it is.
Rebuild(copy, known, fetched) ==
    registry' = [ix \in DOMAIN copy \cup known |->
                    [in |-> KeptDecision(copy, ix), lan |-> KeptLan(copy, ix, known, fetched)]]

\* What PeeringDB may answer: of the exchanges asked about, those it returned
\* something of.  A rate-limited request is retried, then given up as empty.
fetch_ixp_by_country == SUBSET Local
fetch_ixp_prefixes(S) == SUBSET S
fetch_ixp_members(S) == SUBSET S

build_ixp_lan_registry ==
    /\ End(<<"build">>)
    /\ \E members \in SUBSET Ix, heard \in fetch_ixp_by_country :
        \E fetched \in fetch_ixp_prefixes(members \cup heard) :
            Rebuild(held[<<"build">>], members \cup heard, fetched)
    /\ UNCHANGED said

confirm_ixp_region(ix, d) ==
    /\ Listed(ix)
    /\ registry' = [registry EXCEPT ![ix].in = d]
    /\ Decide(ix, d)
    /\ UNCHANGED held

\* Whatever was known of its LAN, the answer replaces it.
add_or_confirm_ixp(ix, d) ==
    /\ End(<<"add", ix, d>>)
    /\ LET copy == held[<<"add", ix, d>>] IN
        \E fetched \in fetch_ixp_prefixes({ix}) :
            registry' = [x \in DOMAIN copy \cup {ix} |->
                            IF x = ix THEN [in |-> d, lan |-> fetched # {}] ELSE copy[x]]
    /\ Decide(ix, d)

\* A foreign exchange goes if it has no member any more that is tracked, or if
\* its members cannot be listed; if none goes, nothing is written.
prune_orphaned_entries ==
    /\ End(<<"prune">>)
    /\ LET copy == held[<<"prune">>] IN
        \E tracked \in fetch_ixp_members(DOMAIN copy \ Local) :
            LET kept == DOMAIN copy \cap (Local \cup tracked)
            IN registry' = IF kept = DOMAIN copy THEN registry ELSE [ix \in kept |-> copy[ix]]
    /\ UNCHANGED said

BeginOperation == UNCHANGED said /\ \E o \in Operation : Begin(o)

\* A request fails for good, or the process dies.
AbandonOperation == UNCHANGED <<registry, said>> /\ \E o \in Operation : End(o)

RegistryNext ==
    \/ BeginOperation \/ AbandonOperation
    \/ build_ixp_lan_registry \/ prune_orphaned_entries
    \/ \E ix \in Ix, d \in Decision : confirm_ixp_region(ix, d) \/ add_or_confirm_ixp(ix, d)
=============================================================================
