------------------------------- MODULE Ledger -------------------------------
(***************************************************************************)
(* One hash chain (app/services/ledger.py): AuditLedger.append() over a    *)
(* table whose key is the sequence number, and verify_integrity().         *)
(* Each process has an AuditLedger with a lock of its own; two processes   *)
(* of one agent (a rolling deployment, DesiredCount above one) write to    *)
(* the same chain.  The table accepts a row only under a free number; an   *)
(* append that finds its number taken raises and is not tried again.       *)
(*                                                                         *)
(* A caller appends one event, so it stands for its event as well; Forged  *)
(* is the content nobody appended.  SHA-256 is modelled as what it is      *)
(* taken to be, injective: the list of all that was hashed.                *)
(***************************************************************************)
EXTENDS Naturals, FiniteSets, Sequences

CONSTANTS Callers,       \* calls of append()
          Ledgers,       \* AuditLedger objects on this chain
          LedgerOf,      \* the object each caller uses
          Forged,        \* event content that no caller wrote
          StaleReads,    \* may head() miss the newest rows (DynamoDB)?
          WritesMayFail, \* may a write fail or lose its answer?
          RowsMayChange  \* may somebody change a row of the table once?

ASSUME CallersAssumption == LedgerOf \in [Callers -> Ledgers] /\ Forged \notin Callers

VARIABLES rows,          \* sequence number -> event, previous and current hash
          pc,            \* where each caller stands
          link,          \* the number and hash a caller is about to use
          damage         \* the lowest row somebody changed, 0 for none

ledgerVars == <<rows, pc, link, damage>>

-----------------------------------------------------------------------------
(* The chain *)

GENESIS_HASH == <<>>

\* The number is part of what is hashed.
compute_hash(previous, sequence, event) == Append(previous, <<sequence, event>>)

\* The highest number in the table, 0 for an empty one.
HeadNumber ==
  IF DOMAIN rows = {} THEN 0 ELSE CHOOSE n \in DOMAIN rows : \A m \in DOMAIN rows : m <= n

HashAt(n) == IF n = 0 THEN GENESIS_HASH ELSE rows[n].current

\* Mutant of Intact: the hash of the row is not computed anew.
IntactLink(n) ==
  /\ n \in DOMAIN rows
  /\ rows[n].previous = HashAt(n - 1)

\* The three checks verify_integrity() makes of the n-th row it reads.
Intact(n) ==
  /\ n \in DOMAIN rows
  /\ rows[n].previous = HashAt(n - 1)
  /\ rows[n].current = compute_hash(rows[n].previous, n, rows[n].event)

\* Mutant of EventsChecked: every row is checked by itself, without the row
\* before it.
EventsCheckedAlone ==
  Cardinality({n \in DOMAIN rows :
    rows[n].current = compute_hash(rows[n].previous, n, rows[n].event)})

\* verify_integrity(): rows are read in order up to the first broken one.
EventsChecked ==
  Cardinality({n \in 1 .. Cardinality(DOMAIN rows) : \A m \in 1 .. n : Intact(m)})

Valid == EventsChecked = Cardinality(DOMAIN rows)

-----------------------------------------------------------------------------
(* append() *)

Holds(c) == pc[c] = "linking"

LockFree(l) == \A d \in Callers : LedgerOf[d] = l => ~ Holds(d)

\* What head() may return: the number of the newest row, or of an older one
\* when a replica answers.
Heads == IF StaleReads THEN DOMAIN rows \cup {0} ELSE {HeadNumber}

Link(c, n, sequence) ==
  /\ link' = [link EXCEPT ![c] =
                [sequence |-> sequence, previous |-> HashAt(n), fresh |-> n = HeadNumber]]
  /\ pc' = [pc EXCEPT ![c] = "linking"]
  /\ UNCHANGED <<rows, damage>>

\* Mutant of LinkToHead: the number of the head is used again.
LinkAtHead(c) ==
  /\ pc[c] = "idle" /\ LockFree(LedgerOf[c])
  /\ \E n \in Heads : Link(c, n, n)

\* Mutant of LinkToHead: the head is read before the lock is taken.
LinkUnlocked(c) ==
  /\ pc[c] = "idle"
  /\ \E n \in Heads : Link(c, n, n + 1)

\* The lock is taken, the head is read and the event linked to it.
LinkToHead(c) ==
  /\ pc[c] = "idle" /\ LockFree(LedgerOf[c])
  /\ \E n \in Heads : Link(c, n, n + 1)

Row(c) ==
  [event |-> c, previous |-> link[c].previous,
   current |-> compute_hash(link[c].previous, link[c].sequence, c)]

Stored(c) ==
  [n \in DOMAIN rows \cup {link[c].sequence} |->
     IF n = link[c].sequence THEN Row(c) ELSE rows[n]]

\* Mutant of Write: an unconditional write.
WriteOver(c) ==
  /\ Holds(c)
  /\ rows' = Stored(c)
  /\ pc' = [pc EXCEPT ![c] = "recorded"]
  /\ UNCHANGED <<link, damage>>

\* The conditional write succeeds.
Write(c) ==
  /\ Holds(c)
  /\ link[c].sequence \notin DOMAIN rows
  /\ rows' = Stored(c)
  /\ pc' = [pc EXCEPT ![c] = "recorded"]
  /\ UNCHANGED <<link, damage>>

\* Another row has the number: LedgerError.
Collide(c) ==
  /\ Holds(c)
  /\ link[c].sequence \in DOMAIN rows
  /\ pc' = [pc EXCEPT ![c] = "collided"]
  /\ UNCHANGED <<rows, link, damage>>

\* Mutant of WriteUnanswered: the append is tried again.
WriteTriedAgain(c) ==
  /\ WritesMayFail
  /\ Holds(c)
  /\ \/ link[c].sequence \notin DOMAIN rows /\ rows' = Stored(c)
     \/ UNCHANGED rows
  /\ pc' = [pc EXCEPT ![c] = "idle"]
  /\ UNCHANGED <<link, damage>>

\* The write or its answer is lost: an error, with or without the row.
WriteUnanswered(c) ==
  /\ WritesMayFail
  /\ Holds(c)
  /\ \/ link[c].sequence \notin DOMAIN rows /\ rows' = Stored(c)
     \/ UNCHANGED rows
  /\ pc' = [pc EXCEPT ![c] = "failed"]
  /\ UNCHANGED <<link, damage>>

AppendStep(c) == LinkToHead(c) \/ Write(c) \/ Collide(c) \/ WriteUnanswered(c)

-----------------------------------------------------------------------------
(* What may happen to the table behind the ledger's back *)

Change(n, changed) ==
  /\ RowsMayChange /\ damage = 0
  /\ rows' = changed
  /\ damage' = n
  /\ UNCHANGED <<pc, link>>

\* The content of a row is replaced.
EditEvent(n) == Change(n, [rows EXCEPT ![n].event = Forged])

\* The content is replaced and the row's own hash computed anew.
EditAndRehash(n) ==
  Change(n, [rows EXCEPT ![n].event = Forged,
                         ![n].current = compute_hash(rows[n].previous, n, Forged)])

\* A hash of row n is replaced by one of row m.
EditHash(n, m) ==
  \/ rows[n].previous # HashAt(m) /\ Change(n, [rows EXCEPT ![n].previous = HashAt(m)])
  \/ rows[n].current # HashAt(m) /\ Change(n, [rows EXCEPT ![n].current = HashAt(m)])

\* A row below the newest is deleted.
DeleteRow(n) ==
  /\ n < HeadNumber
  /\ Change(n, [m \in DOMAIN rows \ {n} |-> rows[m]])

\* Two rows trade their contents.
SwapRows(n, m) ==
  /\ n < m
  /\ Change(n, [rows EXCEPT ![n].event = rows[m].event, ![m].event = rows[n].event])

\* The rows above n are lost (a restored backup).
LoseTail(n) ==
  /\ n < HeadNumber
  /\ rows' = [m \in DOMAIN rows \cap 1 .. n |-> rows[m]]
  /\ UNCHANGED <<pc, link, damage>>

\* The changes some row left in the table speaks against.
Damage ==
  \/ \E n \in DOMAIN rows : EditEvent(n) \/ DeleteRow(n) \/ (n < HeadNumber /\ EditAndRehash(n))
  \/ \E n \in DOMAIN rows, m \in DOMAIN rows : EditHash(n, m) \/ SwapRows(n, m)

\* The changes no row speaks against: what becomes of the newest ones.
DamageAtTheEnd ==
  \/ \E n \in DOMAIN rows \cup {0} : LoseTail(n)
  \/ rows # <<>> /\ EditAndRehash(HeadNumber)

-----------------------------------------------------------------------------

LedgerInit ==
  /\ rows = <<>>
  /\ pc = [c \in Callers |-> "idle"]
  /\ link = [c \in Callers |-> [sequence |-> 1, previous |-> GENESIS_HASH, fresh |-> FALSE]]
  /\ damage = 0

LedgerNext == (\E c \in Callers : AppendStep(c)) \/ Damage

LedgerSpec == LedgerInit /\ [][LedgerNext]_ledgerVars

\* A ledger whose newest rows may get lost or be written anew.
LossySpec == LedgerInit /\ [][LedgerNext \/ DamageAtTheEnd]_ledgerVars

-----------------------------------------------------------------------------
(* Properties *)

\* Numbers count from one, rows and links are of the shape of a LedgerEvent.
LedgerTypeOK ==
  /\ DOMAIN rows \subseteq Nat \ {0}
  /\ \A n \in DOMAIN rows : DOMAIN rows[n] = {"event", "previous", "current"}
                           /\ rows[n].event \in Callers \cup {Forged}
  /\ pc \in [Callers -> {"idle", "linking", "recorded", "collided", "failed"}]
  /\ \A c \in Callers : link[c].sequence \in Nat \ {0}
  /\ damage \in Nat

\* Appends of any number of processes, read from stale heads or not, leave a
\* chain verify_integrity() accepts (ledger.py 347-374 against 395-441).
ChainIntact == damage = 0 => Valid

\* After a change to the table that is not at its very end verify_integrity()
\* rejects the chain for good, however many appends follow, and vouches for
\* exactly the rows up to the one that was changed or the one before it.  The
\* newest row with its hash computed anew passes (ledger.py 401-440).
DamageLocated ==
  damage > 0 => ~ Valid /\ EventsChecked \in {damage - 1, damage}

\* A chain that verifies holds every event whose append was confirmed: "any
\* edit, deletion or reordering of stored rows breaks verify_integrity()"
\* (ledger.py 8-9).  So it does unless the newest rows are deleted, or the last
\* one is written anew with its hash (DamageAtTheEnd).
RecordedIsVouched ==
  Valid => \A c \in Callers : pc[c] = "recorded" => \E n \in DOMAIN rows : rows[n].event = c

\* An append that read the true head loses its number only to another
\* AuditLedger object: the lock keeps the threads of a process apart
\* (ledger.py 356-374).
CollisionsAreForeign ==
  damage = 0 =>
    \A c \in Callers : pc[c] = "collided" /\ link[c].fresh =>
      \E d \in Callers : LedgerOf[d] # LedgerOf[c] /\ rows[link[c].sequence].event = d

Contents == [n \in 1 .. Cardinality(DOMAIN rows) |-> rows[n].event]

\* What the caller of each append() was told.
Answers ==
  [c \in Callers |-> CASE pc[c] \in {"idle", "linking"} -> "none"
                       [] pc[c] = "recorded"            -> "recorded"
                       [] OTHER                         -> "error"]

Log == INSTANCE AppendOnlyLog WITH Events <- Callers, log <- Contents, answers <- Answers

\* Until somebody changes the table, the events in order of their numbers are
\* an append-only log: none is lost, moved or recorded twice, a confirmed one
\* is in it, and one whose append failed is in it at once or never
\* (ledger.py 1-14, 277-291, 347-374).
AppendsOnly == [][damage' = 0 => Log!Next \/ UNCHANGED Log!logVars]_ledgerVars
=============================================================================
