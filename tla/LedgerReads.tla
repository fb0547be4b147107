----------------------------- MODULE LedgerReads -----------------------------
(***************************************************************************)
(* An audit of the chain, GET /ledger/verify, while other requests append: *)
(* read_all() page by page over DynamoDB, then verify_integrity() on what  *)
(* was read.  A page as large as the table is the one query of SQLite.     *)
(***************************************************************************)
EXTENDS Ledger

CONSTANT PageSize  \* rows of one answer to a query

ASSUME PageAssumption == PageSize \in Nat \ {0}

VARIABLES audit,   \* where the audit stands
          seen,    \* the rows it has read
          upToDate,\* did every page come from an up-to-date replica?
          known,   \* callers whose append was confirmed when it began
          before   \* the damage when it began

auditVars == <<audit, seen, upToDate, known, before>>
readVars == <<auditVars, ledgerVars>>

-----------------------------------------------------------------------------

\* The number behind which the next page begins, ExclusiveStartKey.
LastSeen ==
  IF DOMAIN seen = {} THEN 0 ELSE CHOOSE n \in DOMAIN seen : \A m \in DOMAIN seen : m <= n

\* The rows a replica that has come to row newest has still to send.
Unread(newest) == {n \in DOMAIN rows : LastSeen < n /\ n <= newest}

\* Mutant of Page: the page is taken from the end (ScanIndexForward).
PageFromEnd(newest) ==
  {n \in Unread(newest) : Cardinality({m \in Unread(newest) : m >= n}) <= PageSize}

\* The first of them.
Page(newest) ==
  {n \in Unread(newest) : Cardinality({m \in Unread(newest) : m <= n}) <= PageSize}

BeginAudit ==
  /\ audit = "none"
  /\ audit' = "reading"
  /\ known' = {c \in Callers : pc[c] = "recorded"}
  /\ before' = damage
  /\ UNCHANGED <<seen, upToDate, ledgerVars>>

\* Mutant of LastPage: LastEvaluatedKey is not looked at.
FirstPageOnly(newest) == TRUE

\* There may be no LastEvaluatedKey in the answer.
LastPage(newest) == Page(newest) = Unread(newest)

\* One query.  The replica that answers may lack the newest rows; after a full
\* page the answer may ask for another query though nothing is left to read.
ReadPage ==
  /\ audit = "reading"
  /\ \E newest \in Heads :
       /\ seen' = [n \in DOMAIN seen \cup Page(newest) |->
                     IF n \in DOMAIN seen THEN seen[n] ELSE rows[n]]
       /\ upToDate' = (upToDate /\ newest = HeadNumber)
       /\ \/ LastPage(newest) /\ audit' = "done"
          \/ Cardinality(Page(newest)) = PageSize /\ audit' = "reading"
  /\ UNCHANGED <<known, before, ledgerVars>>

\* The answer is computed from what was read, and the audit is over.
Answer ==
  /\ audit = "done"
  /\ audit' = "none"
  /\ seen' = <<>>
  /\ upToDate' = TRUE
  /\ known' = {}
  /\ before' = 0
  /\ UNCHANGED ledgerVars

-----------------------------------------------------------------------------

ReadsInit ==
  /\ LedgerInit
  /\ audit = "none"
  /\ seen = <<>>
  /\ upToDate = TRUE
  /\ known = {}
  /\ before = 0

\* Nothing that happens after the last page matters to an audit: the table
\* waits until the answer is given.
ReadsNext ==
  \/ audit # "done" /\ LedgerNext /\ UNCHANGED auditVars
  \/ BeginAudit
  \/ ReadPage
  \/ Answer

ReadsSpec == ReadsInit /\ [][ReadsNext]_readVars

-----------------------------------------------------------------------------
(* Properties *)

\* What verify_integrity() makes of the rows that were read.
Seen == INSTANCE Ledger WITH rows <- seen

\* As long as nobody changes the table no audit reports a broken chain, however
\* many events are appended while it reads and however far the replicas that
\* answer are apart (ledger.py 293-308 and 347-374 against 395-441).
NoFalseAlarm == audit = "done" /\ damage = 0 => Seen!Valid

\* An audit whose pages were up to date finds what was changed before it began,
\* and one that reports a valid chain has read every event confirmed before it
\* began, whatever is changed while it reads (ledger.py 8-9, 395-441), the end
\* of the table excepted, as above.
AuditCovers ==
  audit = "done" /\ upToDate =>
    /\ before > 0 => ~ Seen!Valid /\ Seen!EventsChecked \in {before - 1, before}
    /\ Seen!Valid => \A c \in known : \E n \in DOMAIN seen : seen[n].event = c
=============================================================================
