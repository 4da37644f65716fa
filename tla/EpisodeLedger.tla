--------------------------- MODULE EpisodeLedger ---------------------------
(***************************************************************************)
(* What the suite runner promises of its journal, whatever its processes,  *)
(* its pool of workers and its restarts do: the journal only grows, an     *)
(* episode that has a simulator verdict is never run for the record again, *)
(* and a repeated episode carries a higher attempt number than every       *)
(* earlier row of the same (task, seed).                                   *)
(***************************************************************************)
EXTENDS EpisodeRows

VARIABLE ledger    \* the rows written so far, oldest first

LedgerTypeOK == ledger \in Seq(Row)

LedgerInit == ledger = << >>

\* A row may be added while its key is open, under a fresh attempt number.
Admits(r) ==
    /\ KeyOf(r) \notin TerminalKeys(ledger)
    /\ \A n \in AttemptsOf(ledger, KeyOf(r)) : n < r.attempt

AppendRow(r) ==
    /\ Admits(r)
    /\ ledger' = Append(ledger, r)

\* The row added by a step is the last one of the new ledger.
LedgerNext ==
    /\ ledger' # << >>
    /\ ledger'[Len(ledger')] \in Row
    /\ AppendRow(ledger'[Len(ledger')])

LedgerSpec == LedgerInit /\ [][LedgerNext]_ledger

-----------------------------------------------------------------------------

(* Within one (task, seed) the attempt number strictly increases along the  *)
(* ledger, so (task, seed, attempt) names at most one row.                  *)
AttemptsIncrease ==
    \A i, j \in DOMAIN ledger :
        /\ i < j
        /\ KeyOf(ledger[i]) = KeyOf(ledger[j])
        => ledger[i].attempt < ledger[j].attempt

(* Nothing follows an episode's verdict: its terminal row is the last row   *)
(* of its (task, seed), so an episode is counted at most once.              *)
VerdictIsLast ==
    \A i, j \in DOMAIN ledger :
        /\ i < j
        /\ KeyOf(ledger[i]) = KeyOf(ledger[j])
        => ~IsTerminal(ledger[i])
=============================================================================
