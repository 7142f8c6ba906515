---------------------------- MODULE LeasingCheck ----------------------------
(***************************************************************************)
(* Leasing-marker check (discovery/leasing_check.py): the offshore check's *)
(* schedule, over WHOIS look-ups of every prefix an ASN originates.  A     *)
(* marker is escalated when its (ASN, prefix, kind) is in no earlier run's *)
(* flags; the kinds are independent of each other, and one stands for all. *)
(*                                                                         *)
(* Results are kept by prefix, so of two ASNs that originate the same one  *)
(* only the later, the one with the higher number, has a result.           *)
(***************************************************************************)
EXTENDS Integers, FiniteSetsExt

CONSTANTS
    Asn,            \* AS numbers the registry may list
    Prefix,         \* IPv4 prefixes
    Originates,     \* ASN -> the prefixes the RIS cache has for it
    Reviewed        \* ACKNOWLEDGED: pairs of an ASN and a prefix

VARIABLES
    registry,       \* asn_registry.json
    lastFull,       \* latest complete full run: "never", "recent" or "old"
    seen,           \* ASNs some run covered
    flagged,        \* flags of all runs: pairs of an ASN and a prefix
    told,           \* history: flag -> times it was escalated, up to 2
    failed,         \* history: ASNs with a failed look-up in the latest run on
                    \* schedule, and in scope ever since
    run             \* run_check: its locals

vars == <<registry, lastFull, seen, flagged, told, failed, run>>

Asleep == [at |-> "asleep", full |-> FALSE, forced |-> FALSE, asns |-> {}, result |-> <<>>, fresh |-> {}]

Init ==
    /\ registry \in SUBSET Asn
    /\ lastFull = "never" /\ seen = {} /\ flagged = {}
    /\ told = [f \in Asn \X Prefix |-> 0]
    /\ failed = {} /\ run = Asleep

\* plan_run: no ASN means "skip", unless a full run is due.
FullIsDue == lastFull # "recent"
Planned == IF FullIsDue THEN registry ELSE registry \ seen

\* _scan: each prefix of `asns`, under the last ASN that originates it.
Targets(asns) == UNION {Originates[a] : a \in asns}
Holder(asns, p) == Max({a \in asns : p \in Originates[a]})
With(asns, result, r) ==
    {<<Holder(asns, p), p>> : p \in {p \in DOMAIN result : result[p] = r}}

FlagKeys(asns, result) == With(asns, result, "marked") \ Reviewed

NewFlags(asns, result) == FlagKeys(asns, result) \ flagged

Scan(asns, full, forced) ==
    /\ run.at = "asleep" /\ (full \/ asns # {})
    /\ \E result \in [Targets(asns) -> {"clean", "marked", "error"}] :
          run' = [at |-> "scanned", full |-> full, forced |-> forced, asns |-> asns,
                  result |-> result, fresh |-> NewFlags(asns, result)]
    /\ UNCHANGED <<registry, lastFull, seen, flagged, told, failed>>

Check == Scan(Planned, FullIsDue, FALSE)

\* --full
ForceFull == Scan(registry, TRUE, TRUE)

Failures == {f[1] : f \in With(run.asns, run.result, "error")}

\* The history entry, then the report.
Record ==
    /\ run.at = "scanned"
    /\ lastFull' = IF run.full /\ Failures = {} THEN "recent" ELSE lastFull
    /\ seen' = seen \cup run.asns
    /\ flagged' = flagged \cup FlagKeys(run.asns, run.result)
    /\ failed' = IF run.forced THEN failed \ run.asns ELSE Failures
    /\ run' = [run EXCEPT !.at = "recorded"]
    /\ UNCHANGED <<registry, told>>

Escalate ==
    /\ run.at = "recorded"
    /\ told' = [f \in DOMAIN told |->
                   IF f \in run.fresh /\ told[f] < 2 THEN told[f] + 1 ELSE told[f]]
    /\ run' = Asleep
    /\ UNCHANGED <<registry, lastFull, seen, flagged, failed>>

Die ==
    /\ run.at # "asleep" /\ run' = Asleep
    /\ UNCHANGED <<registry, lastFull, seen, flagged, told, failed>>

\* FULL_RECHECK_DAYS go by.
MonthPasses ==
    /\ run.at = "asleep" /\ lastFull = "recent" /\ lastFull' = "old"
    /\ UNCHANGED <<registry, seen, flagged, told, failed, run>>

\* Discovery: the registry gains an ASN or loses one.
Rediscover(a) ==
    /\ run.at = "asleep"
    /\ registry' = IF a \in registry THEN registry \ {a} ELSE registry \cup {a}
    /\ failed' = failed \ {a}
    /\ UNCHANGED <<lastFull, seen, flagged, told, run>>

Next ==
    \/ Check \/ ForceFull \/ Record \/ Escalate \/ Die
    \/ MonthPasses \/ \E a \in Asn : Rediscover(a)

Spec == Init /\ [][Next]_vars

(***************************************************************************)
(* "WHOIS fetch errors (retried next run)" (render_report): an ASN with a  *)
(* failed look-up in the latest run on schedule is up again in the next.   *)
(* False: a run over new ASNs only has them seen, failed or not.           *)
(***************************************************************************)
FailedIsRetried == run.at = "asleep" => failed \subseteq Planned

(***************************************************************************)
(* No flag is escalated twice, over any number of runs, deaths in between, *)
(* changes of scope, and prefixes that change hands in the results as a    *)
(* second originator joins a run or not.                                   *)
(***************************************************************************)
NeverToldTwice == \A f \in DOMAIN told : told[f] <= 1
=============================================================================
