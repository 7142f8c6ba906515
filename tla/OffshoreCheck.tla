--------------------------- MODULE OffshoreCheck ---------------------------
(***************************************************************************)
(* Offshore-hosting check (atlas/offshore_check.py): every night it decides*)
(* for itself whether to ping every ASN of the registry, the ones not yet  *)
(* measured, or none; records the verdicts in its history, and then tells  *)
(* the owner (escalations.md) of flags no earlier run had, in two writes.  *)
(*                                                                         *)
(* The history is kept as what plan_run, _new_offshore and                 *)
(* _new_screen_flags read out of it.  The registry changes only while no   *)
(* check is running: the nightly script runs its steps one by one.         *)
(***************************************************************************)
EXTENDS Naturals

CONSTANTS
    Asn,            \* autonomous systems the registry may list
    Quarantined,    \* QUARANTINED_ASN_SET
    ScreenReviewed  \* SCREEN_ACKNOWLEDGED

VARIABLES
    registry,       \* asn_registry.json
    lastFull,       \* latest full run that counts: "never", "recent" or "old"
    seen,           \* ASNs some run measured or found untestable
    flagged,        \* ASNs some run found offshore
    screened,       \* ASNs some run flagged by the upstream screen
    told,           \* history: flag -> times it was escalated, up to 2
    refused,        \* history: ASNs the latest run on schedule left unmeasured,
                    \* and in scope ever since
    run             \* run_check: its locals

vars == <<registry, lastFull, seen, flagged, screened, told, refused, run>>

Flag == {"offshore", "screen"} \X Asn
Verdict == {"offshore", "unconfirmed", "consistent", "no_response", "not_measured"}

Asleep == [at |-> "asleep", full |-> FALSE, forced |-> FALSE, untestable |-> {},
           verdict |-> <<>>, leads |-> {}, new |-> {}, newLeads |-> {}]

Init ==
    /\ registry \in SUBSET Asn
    /\ lastFull = "never" /\ seen = {} /\ flagged = {} /\ screened = {}
    /\ told = [f \in Flag |-> 0]
    /\ refused = {} /\ run = Asleep

\* plan_run: no ASN means "skip", unless a full run is due.
FullIsDue == lastFull # "recent"
Planned == IF FullIsDue THEN registry ELSE registry \ seen

With(verdict, v) == {a \in DOMAIN verdict : verdict[a] = v}

NewOffshore(verdict) == With(verdict, "offshore") \ flagged

\* Mutation of NewScreenFlags: leads of earlier runs are not left out.
AllScreenFlags(leads) == leads \ ScreenReviewed
NewScreenFlags(leads) == (leads \ screened) \ ScreenReviewed

\* run_check up to its history entry, with all the pings.  An ASN's verdict is
\* that of its addresses and, if none answered, of the alternates
\* _second_chance finds for it: any of the five.  Only ASNs silent to the end
\* and not quarantined can be leads (_screen_silent).  An exception in here
\* leaves no trace in any file this module is about.
Measure(asns, full, forced) ==
    /\ run.at = "asleep" /\ (full \/ asns # {})
    /\ \E testable \in SUBSET asns : \E verdict \in [testable -> Verdict] :
       \E leads \in SUBSET (With(verdict, "no_response") \ Quarantined) :
          run' = [at |-> "measured", full |-> full, forced |-> forced,
                  untestable |-> asns \ testable, verdict |-> verdict, leads |-> leads,
                  new |-> NewOffshore(verdict), newLeads |-> NewScreenFlags(leads)]
    /\ UNCHANGED <<registry, lastFull, seen, flagged, screened, told, refused>>

Check == Measure(Planned, FullIsDue, FALSE)

\* --full
ForceFull == Measure(registry, TRUE, TRUE)

Unmeasured == With(run.verdict, "not_measured")

\* Mutation of CountsAsFull: so does a full run Atlas refused some pings of.
CountsUnmeasured == run.full
CountsAsFull == run.full /\ Unmeasured = {}

\* The history entry, then the report.
Record ==
    /\ run.at = "measured"
    /\ lastFull' = IF CountsAsFull THEN "recent" ELSE lastFull
    /\ seen' = seen \cup run.untestable \cup (DOMAIN run.verdict \ Unmeasured)
    /\ flagged' = flagged \cup With(run.verdict, "offshore")
    /\ screened' = screened \cup run.leads
    /\ refused' = IF run.forced
                  THEN refused \ (run.untestable \cup DOMAIN run.verdict)
                  ELSE Unmeasured
    /\ run' = [run EXCEPT !.at = "recorded"]
    /\ UNCHANGED <<registry, told>>

Tell(flags) ==
    told' = [f \in Flag |-> IF f \in flags /\ told[f] < 2 THEN told[f] + 1 ELSE told[f]]

\* _escalate, then _escalate_screen.
Escalate ==
    /\ run.at = "recorded"
    /\ Tell({"offshore"} \X run.new)
    /\ run' = [run EXCEPT !.at = "escalated"]
    /\ UNCHANGED <<registry, lastFull, seen, flagged, screened, refused>>

EscalateScreen ==
    /\ run.at = "escalated"
    /\ Tell({"screen"} \X run.newLeads)
    /\ run' = Asleep
    /\ UNCHANGED <<registry, lastFull, seen, flagged, screened, refused>>

Die ==
    /\ run.at # "asleep" /\ run' = Asleep
    /\ UNCHANGED <<registry, lastFull, seen, flagged, screened, told, refused>>

\* FULL_RECHECK_DAYS go by.
MonthPasses ==
    /\ run.at = "asleep" /\ lastFull = "recent" /\ lastFull' = "old"
    /\ UNCHANGED <<registry, seen, flagged, screened, told, refused, run>>

\* Discovery: the registry gains an ASN or loses one.
Rediscover(a) ==
    /\ run.at = "asleep"
    /\ registry' = IF a \in registry THEN registry \ {a} ELSE registry \cup {a}
    /\ refused' = refused \ {a}
    /\ UNCHANGED <<lastFull, seen, flagged, screened, told, run>>

Next ==
    \/ Check \/ ForceFull \/ Record \/ Escalate \/ EscalateScreen \/ Die
    \/ MonthPasses \/ \E a \in Asn : Rediscover(a)

Spec == Init /\ [][Next]_vars

(***************************************************************************)
(* An ASN Atlas refused to measure in the latest run on schedule is up     *)
(* again in the next, be that run a full one or not, for as long as it is  *)
(* in scope.  (A run forced with --full gives no such promise: the full    *)
(* run before it still counts.)                                            *)
(***************************************************************************)
RefusedIsRetried == run.at = "asleep" => refused \subseteq Planned

(***************************************************************************)
(* Nobody is escalated twice for the same reason, over any number of runs, *)
(* deaths in between, and changes of scope.                                *)
(***************************************************************************)
NeverToldTwice == \A f \in Flag : told[f] <= 1
=============================================================================
