---------------------------- MODULE LedgerProofs ----------------------------
(***************************************************************************)
(* Proofs about Ledger and LedgerReads, for any number of callers and      *)
(* AuditLedger objects, with stale heads, lost writes and a changed row.   *)
(***************************************************************************)
EXTENDS LedgerReads, FiniteSetTheorems, WellFoundedInduction, TLAPS

-----------------------------------------------------------------------------
(* The inductive invariant *)

\* The rows are numbered without a gap.
Gapless == \E N \in Nat : DOMAIN rows = 1 .. N

\* A caller about to write links to a row of the chain, not always the newest.
LinkOK(c) ==
  /\ link[c].sequence \in Nat \ {0}
  /\ link[c].sequence - 1 \in DOMAIN rows \cup {0}
  /\ link[c].previous = HashAt(link[c].sequence - 1)

\* The events of the chain are those of callers that are done.
EventsOK ==
  \A n \in DOMAIN rows : rows[n].event \in Callers
                         /\ pc[rows[n].event] \notin {"idle", "linking"}

Chained ==
  /\ Gapless
  /\ \A n \in DOMAIN rows : Intact(n)
  /\ \A c \in Callers : Holds(c) => LinkOK(c)
  /\ EventsOK

ChainInv ==
  /\ DOMAIN pc = Callers /\ DOMAIN link = Callers
  /\ damage \in Nat
  /\ damage = 0 => Chained

LEMMA ChainInvInit == LedgerInit => ChainInv
<1> SUFFICES ASSUME LedgerInit PROVE ChainInv
  OBVIOUS
<1>1. DOMAIN rows = {}
  BY DEF LedgerInit
<1>2. DOMAIN rows = 1 .. 0
  BY <1>1
<1>3. \A c \in Callers : ~ Holds(c)
  BY DEF LedgerInit, Holds
<1> QED BY <1>1, <1>2, <1>3 DEF LedgerInit, ChainInv, Chained, Gapless, EventsOK

\* Whatever head() returns is the number of a row, or zero.
LEMMA HeadsOK ==
  ASSUME Gapless
  PROVE  Heads \subseteq DOMAIN rows \cup {0}
<1>1. PICK N \in Nat : DOMAIN rows = 1 .. N
  BY DEF Gapless
<1>2. CASE N = 0
  BY <1>1, <1>2 DEF Heads, HeadNumber
<1>3. CASE N > 0
  <2>1. N \in DOMAIN rows /\ \A m \in DOMAIN rows : m <= N
    BY <1>1, <1>3
  <2>2. HeadNumber \in DOMAIN rows
    BY <2>1 DEF HeadNumber
  <2> QED BY <2>2 DEF Heads
<1> QED BY <1>1, <1>2, <1>3

LEMMA LinkStep ==
  ASSUME ChainInv, NEW c \in Callers, LinkToHead(c)
  PROVE  ChainInv'
<1>1. PICK n \in Heads : Link(c, n, n + 1)
  BY DEF LinkToHead
<1>2. /\ UNCHANGED <<rows, damage>>
      /\ DOMAIN pc' = Callers /\ DOMAIN link' = Callers
      /\ pc' = [pc EXCEPT ![c] = "linking"] /\ pc[c] = "idle"
      /\ \A d \in Callers \ {c} : link'[d] = link[d] /\ pc'[d] = pc[d]
  BY <1>1 DEF Link, ChainInv, LinkToHead
<1>3. ASSUME damage = 0 PROVE Chained'
  <2>1. Chained BY <1>3 DEF ChainInv
  <2>2. n \in DOMAIN rows \cup {0} /\ n \in Nat
    BY <2>1, HeadsOK DEF Chained, Gapless
  <2>3. /\ link'[c].sequence = n + 1
        /\ link'[c].previous = HashAt(n)
    BY <1>1 DEF Link, ChainInv
  <2>4. \A d \in Callers : Holds(d)' => LinkOK(d)'
    <3>1. LinkOK(c)'
      <4>1. n + 1 \in Nat \ {0} /\ (n + 1) - 1 = n BY <2>2
      <4> QED BY <1>2, <2>2, <2>3, <4>1 DEF LinkOK, HashAt
    <3>2. ASSUME NEW d \in Callers \ {c}, Holds(d)' PROVE LinkOK(d)'
      <4>1. Holds(d) BY <1>2, <3>2 DEF Holds
      <4> QED BY <1>2, <2>1, <4>1 DEF Chained, LinkOK, HashAt
    <3> QED BY <3>1, <3>2
  <2>5. EventsOK'
    BY <1>2, <2>1 DEF Chained, EventsOK
  <2>6. Gapless' /\ \A m \in DOMAIN rows' : Intact(m)'
    BY <1>2, <2>1 DEF Chained, Gapless, Intact, HashAt
  <2> QED BY <2>4, <2>5, <2>6 DEF Chained
<1> QED BY <1>2, <1>3 DEF ChainInv

\* Storing an event under a free number puts it at the end of the chain.
LEMMA StoreStep ==
  ASSUME ChainInv, damage = 0, NEW c \in Callers, Holds(c),
         link[c].sequence \notin DOMAIN rows, rows' = Stored(c),
         NEW s, s \notin {"idle", "linking"}, pc' = [pc EXCEPT ![c] = s],
         UNCHANGED <<link, damage>>
  PROVE  /\ Chained'
         /\ \A N \in Nat : DOMAIN rows = 1 .. N =>
              /\ DOMAIN rows' = 1 .. N + 1
              /\ rows'[N + 1].event = c
              /\ \A n \in 1 .. N : rows'[n] = rows[n]
<1>1. Chained /\ LinkOK(c)
  BY DEF ChainInv, Chained
<1>2. PICK N \in Nat : DOMAIN rows = 1 .. N
  BY <1>1 DEF Chained, Gapless
<1>3. link[c].sequence = N + 1
  BY <1>1, <1>2 DEF LinkOK
<1>4. /\ DOMAIN rows' = 1 .. N + 1
      /\ rows'[N + 1] = Row(c)
      /\ \A n \in 1 .. N : rows'[n] = rows[n]
  BY <1>2, <1>3 DEF Stored
<1>5. Row(c).event = c /\ Row(c).previous = link[c].previous
      /\ Row(c).current = compute_hash(link[c].previous, N + 1, c)
  BY <1>3 DEF Row
<1>6. \A n \in 0 .. N : HashAt(n)' = HashAt(n)
  BY <1>4 DEF HashAt
<1>7. \A n \in DOMAIN rows' : Intact(n)'
  <2>1. ASSUME NEW n \in 1 .. N PROVE Intact(n)'
    <3>1. Intact(n) BY <1>1, <1>2 DEF Chained
    <3>2. HashAt(n - 1)' = HashAt(n - 1) BY <1>6
    <3> QED BY <1>4, <3>1, <3>2 DEF Intact
  <2>2. Intact(N + 1)'
    <3>1. HashAt(N)' = HashAt(N) BY <1>6
    <3>2. link[c].previous = HashAt(N) BY <1>1, <1>3 DEF LinkOK
    <3>3. (N + 1) - 1 = N OBVIOUS
    <3> QED BY <1>4, <1>5, <3>1, <3>2, <3>3 DEF Intact
  <2> QED BY <1>4, <2>1, <2>2
<1>8. \A d \in Callers : Holds(d)' => LinkOK(d)'
  <2> SUFFICES ASSUME NEW d \in Callers, Holds(d)' PROVE LinkOK(d)'
    OBVIOUS
  <2>1. d # c /\ Holds(d)
    BY DEF Holds, ChainInv
  <2>2. LinkOK(d) BY <1>1, <2>1 DEF Chained
  <2>3. link[d].sequence - 1 \in 0 .. N BY <1>2, <2>2 DEF LinkOK
  <2>4. HashAt(link[d].sequence - 1)' = HashAt(link[d].sequence - 1)
    BY <1>6, <2>3
  <2> QED BY <1>4, <2>2, <2>3, <2>4 DEF LinkOK
<1>9. EventsOK'
  <2>1. \A n \in 1 .. N : rows'[n].event \in Callers
                         /\ pc'[rows'[n].event] \notin {"idle", "linking"}
    BY <1>1, <1>2, <1>4 DEF Chained, EventsOK, ChainInv
  <2>2. rows'[N + 1].event = c /\ pc'[c] = s
    BY <1>4, <1>5 DEF ChainInv
  <2> QED BY <1>4, <2>1, <2>2 DEF EventsOK
<1>10. Gapless' BY <1>4 DEF Gapless
<1>11. \A M \in Nat : DOMAIN rows = 1 .. M => M = N
  BY <1>2
<1> QED BY <1>4, <1>5, <1>7, <1>8, <1>9, <1>10, <1>11 DEF Chained

\* An append that stores nothing leaves the chain as it is.
LEMMA NothingStored ==
  ASSUME ChainInv, NEW c \in Callers, Holds(c), NEW s, s \notin {"idle", "linking"},
         pc' = [pc EXCEPT ![c] = s], UNCHANGED <<rows, link, damage>>
  PROVE  ChainInv'
<1>1. \A d \in Callers : Holds(d)' => Holds(d)
  BY DEF Holds, ChainInv
<1>2. Gapless' <=> Gapless
  BY DEF Gapless
<1>3. \A n : Intact(n)' <=> Intact(n)
  BY DEF Intact, HashAt
<1>4. \A d : LinkOK(d)' <=> LinkOK(d)
  BY DEF LinkOK, HashAt
<1>5. EventsOK /\ damage = 0 => EventsOK'
  BY DEF EventsOK, ChainInv
<1> QED BY <1>1, <1>2, <1>3, <1>4, <1>5 DEF ChainInv, Chained

LEMMA WriteStep ==
  ASSUME ChainInv, NEW c \in Callers, Write(c) \/ WriteUnanswered(c)
  PROVE  ChainInv'
<1>1. Holds(c) /\ UNCHANGED <<link, damage>>
  BY DEF Write, WriteUnanswered
<1>2. PICK s \in {"recorded", "failed"} : pc' = [pc EXCEPT ![c] = s]
  BY DEF Write, WriteUnanswered
<1>3. CASE rows' = Stored(c) /\ link[c].sequence \notin DOMAIN rows
  <2>1. damage = 0 => Chained' BY <1>1, <1>2, <1>3, StoreStep
  <2> QED BY <1>1, <1>2, <2>1 DEF ChainInv
<1>4. CASE UNCHANGED rows
  BY <1>1, <1>2, <1>4, NothingStored
<1> QED BY <1>3, <1>4 DEF Write, WriteUnanswered

\* Whatever changes a row is noted.
LEMMA DamageIsNoted ==
  ASSUME ChainInv, Damage
  PROVE  damage' \in Nat \ {0} /\ UNCHANGED <<pc, link>>
<1>1. PICK n \in DOMAIN rows : /\ damage = 0 /\ damage' = n
                              /\ UNCHANGED <<pc, link>>
  BY DEF Damage, EditEvent, EditAndRehash, DeleteRow, EditHash, SwapRows, Change
<1>2. Gapless BY <1>1 DEF ChainInv, Chained
<1> QED BY <1>1, <1>2 DEF Gapless

LEMMA ChainInvStep == ChainInv /\ [LedgerNext]_ledgerVars => ChainInv'
<1> SUFFICES ASSUME ChainInv, [LedgerNext]_ledgerVars PROVE ChainInv'
  OBVIOUS
<1>1. ASSUME NEW c \in Callers, LinkToHead(c) PROVE ChainInv'
  BY <1>1, LinkStep
<1>2. ASSUME NEW c \in Callers, Write(c) \/ WriteUnanswered(c) PROVE ChainInv'
  BY <1>2, WriteStep
<1>3. ASSUME NEW c \in Callers, Collide(c) PROVE ChainInv'
  BY <1>3, NothingStored DEF Collide
<1>4. ASSUME Damage PROVE ChainInv'
  BY <1>4, DamageIsNoted DEF ChainInv
<1>5. ASSUME UNCHANGED ledgerVars PROVE ChainInv'
  <2>1. Gapless' <=> Gapless BY <1>5 DEF Gapless, ledgerVars
  <2>2. \A n : Intact(n)' <=> Intact(n) BY <1>5 DEF Intact, HashAt, ledgerVars
  <2>3. \A d : LinkOK(d)' <=> LinkOK(d) BY <1>5 DEF LinkOK, HashAt, ledgerVars
  <2>4. \A d : Holds(d)' <=> Holds(d) BY <1>5 DEF Holds, ledgerVars
  <2>5. EventsOK' <=> EventsOK BY <1>5 DEF EventsOK, ledgerVars
  <2> QED BY <1>5, <2>1, <2>2, <2>3, <2>4, <2>5 DEF ChainInv, Chained, ledgerVars
<1> QED BY <1>1, <1>2, <1>3, <1>4, <1>5 DEF LedgerNext, AppendStep

-----------------------------------------------------------------------------
(* The chain verifies *)

LEMMA RowsCounted ==
  ASSUME NEW N \in Nat, DOMAIN rows = 1 .. N
  PROVE  Cardinality(DOMAIN rows) = N
BY FS_Interval

LEMMA ChainedIsValid ==
  ASSUME Chained
  PROVE  Valid
<1>1. PICK N \in Nat : DOMAIN rows = 1 .. N
  BY DEF Chained, Gapless
<1>2. Cardinality(DOMAIN rows) = N
  BY <1>1, RowsCounted
<1>3. {n \in 1 .. N : \A m \in 1 .. n : Intact(m)} = DOMAIN rows
  BY <1>1 DEF Chained
<1> QED BY <1>2, <1>3 DEF Valid, EventsChecked

\* However many processes append, from heads however stale, with writes and
\* answers lost: as long as nobody changes the table, the chain verifies.
THEOREM ChainStaysIntact == LedgerSpec => []ChainIntact
<1>1. ChainInv /\ [LedgerNext]_ledgerVars => ChainInv' BY ChainInvStep
<1>2. ChainInv => ChainIntact BY ChainedIsValid DEF ChainInv, ChainIntact
<1> QED BY <1>1, <1>2, ChainInvInit, PTL DEF LedgerSpec

-----------------------------------------------------------------------------
(* The chain is an append-only log *)

\* A row that is stored is an event added to the log.
LEMMA StoreAdds ==
  ASSUME ChainInv, ChainInv', damage = 0, NEW c \in Callers, Holds(c),
         link[c].sequence \notin DOMAIN rows, rows' = Stored(c),
         NEW s, s \notin {"idle", "linking"}, pc' = [pc EXCEPT ![c] = s],
         UNCHANGED <<link, damage>>
  PROVE  Log!Added(c)
<1>1. PICK N \in Nat : DOMAIN rows = 1 .. N
  BY DEF ChainInv, Chained, Gapless
<1>2. /\ DOMAIN rows' = 1 .. N + 1
      /\ rows'[N + 1].event = c
      /\ \A n \in 1 .. N : rows'[n] = rows[n]
  BY <1>1, StoreStep
<1>3. Cardinality(DOMAIN rows) = N
  BY <1>1, RowsCounted
<1>4. Cardinality(DOMAIN rows') = N + 1
  BY <1>2, FS_Interval
<1>5. /\ Contents = [n \in 1 .. N |-> rows[n].event]
      /\ Contents' = [n \in 1 .. N + 1 |-> rows'[n].event]
  BY <1>3, <1>4 DEF Contents
<1>6. \A n \in 1 .. N : rows[n].event \in Callers /\ rows[n].event # c
  BY <1>1 DEF ChainInv, Chained, EventsOK, Holds
<1>7. Contents \in Seq(Callers) /\ Len(Contents) = N
  BY <1>5, <1>6
<1>8. Contents' = Append(Contents, c)
  BY <1>2, <1>5, <1>7
<1>9. \A i \in DOMAIN Contents : Contents[i] # c
  BY <1>5, <1>6
<1> QED BY <1>8, <1>9 DEF Log!Added

\* A caller that leaves its link is told so, and nobody else is told anything.
LEMMA AnswersMove ==
  ASSUME ChainInv, NEW c \in Callers, Holds(c), NEW s, pc' = [pc EXCEPT ![c] = s]
  PROVE  /\ Answers[c] = "none"
         /\ s = "recorded" => Answers' = [Answers EXCEPT ![c] = "recorded"]
         /\ s \in {"collided", "failed"} => Answers' = [Answers EXCEPT ![c] = "error"]
<1>1. DOMAIN pc = Callers
  BY DEF ChainInv
<1>2. Answers[c] = "none"
  BY DEF Holds, Answers
<1> QED BY <1>1, <1>2 DEF Answers

LEMMA LogStep ==
  ASSUME ChainInv, ChainInv', [LedgerNext]_ledgerVars, damage' = 0
  PROVE  Log!Next \/ UNCHANGED Log!logVars
<1>1. ASSUME NEW c \in Callers, Write(c) PROVE Log!Record(c)
  <2>1. Log!Added(c)
    BY <1>1, StoreAdds DEF Write
  <2> QED BY <1>1, <2>1, AnswersMove DEF Write, Log!Record
<1>2. ASSUME NEW c \in Callers, WriteUnanswered(c) PROVE Log!Refuse(c)
  <2>1. Log!Added(c) \/ UNCHANGED Contents
    BY <1>2, StoreAdds DEF WriteUnanswered, Contents
  <2> QED BY <1>2, <2>1, AnswersMove DEF WriteUnanswered, Log!Refuse
<1>3. ASSUME NEW c \in Callers, Collide(c) PROVE Log!Refuse(c)
  <2>1. UNCHANGED Contents
    BY <1>3 DEF Collide, Contents
  <2> QED BY <1>3, <2>1, AnswersMove DEF Collide, Log!Refuse
<1>4. ASSUME NEW c \in Callers, LinkToHead(c) PROVE UNCHANGED Log!logVars
  <2>1. UNCHANGED rows /\ pc[c] = "idle" /\ pc' = [pc EXCEPT ![c] = "linking"]
    BY <1>4 DEF LinkToHead, Link
  <2>2. \A d \in Callers : pc'[d] = pc[d] \/ {pc[d], pc'[d]} \subseteq {"idle", "linking"}
    BY <2>1 DEF ChainInv
  <2>3. UNCHANGED Answers
    BY <2>2 DEF Answers
  <2> QED BY <2>1, <2>3 DEF Log!logVars, Contents
<1>5. ~ Damage
  BY DamageIsNoted
<1>6. CASE UNCHANGED ledgerVars
  BY <1>6 DEF ledgerVars, Log!logVars, Contents, Answers
<1> QED BY <1>1, <1>2, <1>3, <1>4, <1>5, <1>6 DEF LedgerNext, AppendStep, Log!Next

\* Until somebody changes the table the ledger is the log its writers take it
\* for: append-only, without duplicates, holding what it confirmed, and never to
\* hold later what it failed to record at once (ledger.py 277-291, 347-374).
THEOREM LedgerIsAppendOnly == LedgerSpec => AppendsOnly
<1>1. ChainInv /\ [LedgerNext]_ledgerVars => ChainInv' BY ChainInvStep
<1>2. ChainInv /\ ChainInv' /\ [LedgerNext]_ledgerVars
        => [damage' = 0 => Log!Next \/ UNCHANGED Log!logVars]_ledgerVars
  BY LogStep
<1> QED BY <1>1, <1>2, ChainInvInit, PTL DEF LedgerSpec, AppendsOnly

-----------------------------------------------------------------------------
(* Types *)

\* There is a highest number.
Numbered ==
  \E N \in Nat : DOMAIN rows \subseteq 1 .. N /\ (N \in DOMAIN rows \/ DOMAIN rows = {})

TypeInv == LedgerTypeOK /\ Numbered

LEMMA HeadsTyped ==
  ASSUME TypeInv
  PROVE  HeadNumber \in DOMAIN rows \cup {0} /\ Heads \subseteq Nat
<1>1. PICK N \in Nat : DOMAIN rows \subseteq 1 .. N /\ (N \in DOMAIN rows \/ DOMAIN rows = {})
  BY DEF TypeInv, Numbered
<1>2. CASE DOMAIN rows = {}
  BY <1>2 DEF HeadNumber, Heads
<1>3. CASE N \in DOMAIN rows
  <2>1. \E n \in DOMAIN rows : \A m \in DOMAIN rows : m <= n
    BY <1>1, <1>3
  <2>2. HeadNumber \in DOMAIN rows
    BY <2>1 DEF HeadNumber
  <2> QED BY <1>1, <2>2 DEF Heads
<1> QED BY <1>1, <1>2, <1>3

LEMMA TypeStore ==
  ASSUME TypeInv, NEW c \in Callers, rows' = Stored(c)
  PROVE  /\ DOMAIN rows' = DOMAIN rows \cup {link[c].sequence}
         /\ rows'[link[c].sequence] = Row(c)
         /\ \A n \in DOMAIN rows : n # link[c].sequence => rows'[n] = rows[n]
         /\ DOMAIN rows' \subseteq Nat \ {0}
         /\ \A n \in DOMAIN rows' : DOMAIN rows'[n] = {"event", "previous", "current"}
                                   /\ rows'[n].event \in Callers \cup {Forged}
         /\ Numbered'
<1>1. link[c].sequence \in Nat \ {0}
  BY DEF TypeInv, LedgerTypeOK
<1>2. /\ DOMAIN rows' = DOMAIN rows \cup {link[c].sequence}
      /\ rows'[link[c].sequence] = Row(c)
      /\ \A n \in DOMAIN rows : n # link[c].sequence => rows'[n] = rows[n]
  BY DEF Stored
<1>3. DOMAIN Row(c) = {"event", "previous", "current"} /\ Row(c).event = c
  BY DEF Row
<1>4. PICK N \in Nat : DOMAIN rows \subseteq 1 .. N /\ (N \in DOMAIN rows \/ DOMAIN rows = {})
  BY DEF TypeInv, Numbered
<1>5. Numbered'
  <2>1. CASE DOMAIN rows = {} \/ N < link[c].sequence
    <3>1. DOMAIN rows' \subseteq 1 .. link[c].sequence /\ link[c].sequence \in DOMAIN rows'
      BY <1>1, <1>2, <1>4, <2>1
    <3> QED BY <1>1, <3>1 DEF Numbered
  <2>2. CASE N \in DOMAIN rows /\ link[c].sequence <= N
    <3>1. DOMAIN rows' \subseteq 1 .. N /\ N \in DOMAIN rows'
      BY <1>1, <1>2, <1>4, <2>2
    <3> QED BY <3>1 DEF Numbered
  <2> QED BY <1>1, <1>4, <2>1, <2>2
<1> QED BY <1>1, <1>2, <1>3, <1>5 DEF TypeInv, LedgerTypeOK

LEMMA TypeDamage ==
  ASSUME TypeInv, Damage
  PROVE  TypeInv'
<1>1. PICK n \in DOMAIN rows :
        \/ EditEvent(n) \/ EditAndRehash(n) \/ DeleteRow(n)
        \/ \E m \in DOMAIN rows : EditHash(n, m) \/ SwapRows(n, m)
  BY DEF Damage
<1>2. damage' = n /\ UNCHANGED <<pc, link>>
  BY <1>1 DEF EditEvent, EditAndRehash, DeleteRow, EditHash, SwapRows, Change
<1>3. CASE DeleteRow(n)
  <2>1. DOMAIN rows' = DOMAIN rows \ {n} /\ \A m \in DOMAIN rows' : rows'[m] = rows[m]
    BY <1>3 DEF DeleteRow, Change
  <2>2. PICK N \in Nat : DOMAIN rows \subseteq 1 .. N /\ N \in DOMAIN rows
    BY DEF TypeInv, Numbered
  <2>3. n # N
    BY <1>3, <2>2, HeadsTyped DEF DeleteRow
  <2>4. Numbered' BY <2>1, <2>2, <2>3 DEF Numbered
  <2> QED BY <1>2, <2>1, <2>4 DEF TypeInv, LedgerTypeOK
<1>4. CASE ~ DeleteRow(n)
  <2>1. DOMAIN rows' = DOMAIN rows
    BY <1>1, <1>4 DEF EditEvent, EditAndRehash, EditHash, SwapRows, Change
  <2>2. \A k \in DOMAIN rows : DOMAIN rows'[k] = {"event", "previous", "current"}
                              /\ rows'[k].event \in Callers \cup {Forged}
    <3> SUFFICES ASSUME NEW k \in DOMAIN rows
                 PROVE  DOMAIN rows'[k] = DOMAIN rows[k]
                        /\ rows'[k].event \in Callers \cup {Forged}
      BY DEF TypeInv, LedgerTypeOK
    <3>1. \A j \in DOMAIN rows : rows[j].event \in Callers \cup {Forged}
                                /\ {"event", "previous", "current"} = DOMAIN rows[j]
      BY DEF TypeInv, LedgerTypeOK
    <3>2. CASE EditEvent(n) BY <3>1, <3>2 DEF EditEvent, Change
    <3>3. CASE EditAndRehash(n) BY <3>1, <3>3 DEF EditAndRehash, Change
    <3>4. ASSUME NEW m \in DOMAIN rows, EditHash(n, m)
          PROVE  DOMAIN rows'[k] = DOMAIN rows[k] /\ rows'[k].event = rows[k].event
      BY <3>1, <3>4 DEF EditHash, Change
    <3>5. ASSUME NEW m \in DOMAIN rows, SwapRows(n, m)
          PROVE  DOMAIN rows'[k] = DOMAIN rows[k]
                 /\ rows'[k].event \in {rows[k].event, rows[m].event, rows[n].event}
      BY <3>1, <3>5 DEF SwapRows, Change
    <3> QED BY <1>1, <1>4, <3>1, <3>2, <3>3, <3>4, <3>5
  <2>3. Numbered' BY <2>1 DEF TypeInv, Numbered
  <2> QED BY <1>2, <2>1, <2>2, <2>3 DEF TypeInv, LedgerTypeOK
<1> QED BY <1>3, <1>4

LEMMA TypeStep == TypeInv /\ [LedgerNext]_ledgerVars => TypeInv'
<1> SUFFICES ASSUME TypeInv, [LedgerNext]_ledgerVars PROVE TypeInv'
  OBVIOUS
<1>1. ASSUME NEW c \in Callers, LinkToHead(c) PROVE TypeInv'
  <2>1. PICK n \in Heads : Link(c, n, n + 1)
    BY <1>1 DEF LinkToHead
  <2>2. n \in Nat BY HeadsTyped
  <2>3. \A d \in Callers : link'[d].sequence \in Nat \ {0}
    BY <2>1, <2>2 DEF Link, TypeInv, LedgerTypeOK
  <2> QED BY <2>1, <2>3 DEF Link, TypeInv, LedgerTypeOK, Numbered
<1>2. ASSUME NEW c \in Callers, Write(c) \/ WriteUnanswered(c) PROVE TypeInv'
  <2>1. UNCHANGED <<link, damage>> /\ pc' \in [Callers -> {"idle", "linking", "recorded", "collided", "failed"}]
    BY <1>2 DEF Write, WriteUnanswered, TypeInv, LedgerTypeOK
  <2>2. CASE UNCHANGED rows
    BY <2>1, <2>2 DEF TypeInv, LedgerTypeOK, Numbered
  <2>3. CASE rows' = Stored(c)
    BY <2>1, <2>3, TypeStore DEF TypeInv, LedgerTypeOK
  <2> QED BY <1>2, <2>2, <2>3 DEF Write, WriteUnanswered
<1>3. ASSUME NEW c \in Callers, Collide(c) PROVE TypeInv'
  BY <1>3 DEF Collide, TypeInv, LedgerTypeOK, Numbered
<1>4. CASE UNCHANGED ledgerVars
  BY <1>4 DEF ledgerVars, TypeInv, LedgerTypeOK, Numbered
<1> QED BY <1>1, <1>2, <1>3, <1>4, TypeDamage DEF LedgerNext, AppendStep

LEMMA TypeInit == LedgerInit => TypeInv
<1> SUFFICES ASSUME LedgerInit PROVE TypeInv
  OBVIOUS
<1>1. DOMAIN rows = {} BY DEF LedgerInit
<1>2. Numbered BY <1>1 DEF Numbered
<1> QED BY <1>1, <1>2 DEF TypeInv, LedgerTypeOK, LedgerInit

\* The table and the links keep the shape of a LedgerEvent, whatever is done to
\* the table.
THEOREM LedgerTypes == LedgerSpec => []LedgerTypeOK
<1>1. TypeInv /\ [LedgerNext]_ledgerVars => TypeInv' BY TypeStep
<1>2. TypeInv => LedgerTypeOK BY DEF TypeInv
<1> QED BY <1>1, <1>2, TypeInit, PTL DEF LedgerSpec

-----------------------------------------------------------------------------
(* The lock *)

\* The row under the number a caller wanted is another process's.
TakenByOther(c) ==
  \E d \in Callers : LedgerOf[d] # LedgerOf[c] /\ rows[link[c].sequence].event = d

LockInv ==
  /\ \A c \in Callers, d \in Callers :
       Holds(c) /\ Holds(d) /\ LedgerOf[c] = LedgerOf[d] => c = d
  /\ damage = 0 =>
       \A c \in Callers : link[c].fresh /\ link[c].sequence \in DOMAIN rows
                           /\ (Holds(c) \/ pc[c] = "collided") => TakenByOther(c)
  /\ damage = 0 =>
       \A c \in Callers : pc[c] = "collided" => link[c].sequence \in DOMAIN rows

LEMMA LockStore ==
  ASSUME ChainInv, LockInv, NEW c \in Callers, Holds(c),
         link[c].sequence \notin DOMAIN rows, rows' = Stored(c),
         NEW s, s \notin {"idle", "linking", "collided"}, pc' = [pc EXCEPT ![c] = s],
         UNCHANGED <<link, damage>>
  PROVE  LockInv'
<1>1. /\ DOMAIN rows' = DOMAIN rows \cup {link[c].sequence}
      /\ rows'[link[c].sequence].event = c
      /\ \A n \in DOMAIN rows : rows'[n] = rows[n]
  BY DEF Stored, Row
<1>2. \A d \in Callers : d # c => pc'[d] = pc[d]
  BY DEF ChainInv
<1>3. pc'[c] = s
  BY DEF ChainInv
<1>4. \A d \in Callers : Holds(d)' => d # c /\ Holds(d)
  BY <1>2, <1>3 DEF Holds
<1>5. ASSUME damage = 0, NEW d \in Callers, link[d].fresh, link[d].sequence \in DOMAIN rows',
             Holds(d)' \/ pc'[d] = "collided"
      PROVE  TakenByOther(d)'
  <2>1. d # c /\ (Holds(d) \/ pc[d] = "collided")
    BY <1>2, <1>3, <1>4, <1>5
  <2>2. CASE link[d].sequence \in DOMAIN rows
    <3>1. TakenByOther(d) BY <1>5, <2>1, <2>2 DEF LockInv
    <3> QED BY <1>1, <2>2, <3>1 DEF TakenByOther
  <2>3. CASE link[d].sequence \notin DOMAIN rows
    <3>1. link[d].sequence = link[c].sequence BY <1>1, <1>5, <2>3
    <3>2. Holds(d) BY <1>5, <2>1, <2>3 DEF LockInv
    <3>3. LedgerOf[c] # LedgerOf[d] BY <2>1, <3>2 DEF LockInv
    <3> QED BY <1>1, <3>1, <3>3 DEF TakenByOther
  <2> QED BY <2>2, <2>3
<1>6. \A d \in Callers : damage = 0 /\ pc'[d] = "collided" => link[d].sequence \in DOMAIN rows'
  BY <1>1, <1>2, <1>3 DEF LockInv
<1> QED BY <1>4, <1>5, <1>6 DEF LockInv

\* An append that stores nothing leaves the lock in order.
LEMMA LockNothing ==
  ASSUME ChainInv, LockInv, NEW c \in Callers, Holds(c),
         NEW s, s # "linking", s = "collided" => link[c].sequence \in DOMAIN rows,
         pc' = [pc EXCEPT ![c] = s], UNCHANGED <<rows, link, damage>>
  PROVE  LockInv'
<1>1. /\ \A d \in Callers : d # c => pc'[d] = pc[d]
      /\ pc'[c] = s
  BY DEF ChainInv
<1>2. \A d \in Callers : Holds(d)' => Holds(d)
  BY <1>1 DEF Holds
<1>3. \A d \in Callers : Holds(d)' \/ pc'[d] = "collided" => Holds(d) \/ pc[d] = "collided"
  BY <1>1, <1>2
<1>4. \A d \in Callers : TakenByOther(d)' <=> TakenByOther(d)
  BY DEF TakenByOther
<1> QED BY <1>1, <1>2, <1>3, <1>4 DEF LockInv

LEMMA LockLink ==
  ASSUME ChainInv, LockInv, NEW c \in Callers, LinkToHead(c)
  PROVE  LockInv'
<1>1. PICK n \in Heads : Link(c, n, n + 1)
  BY DEF LinkToHead
<1>2. /\ UNCHANGED <<rows, damage>>
      /\ pc'[c] = "linking"
      /\ \A d \in Callers : d # c => link'[d] = link[d] /\ pc'[d] = pc[d]
      /\ link'[c].sequence = n + 1 /\ link'[c].fresh = (n = HeadNumber)
  BY <1>1 DEF Link, ChainInv
<1>3. \A d \in Callers : LedgerOf[d] = LedgerOf[c] => ~ Holds(d)
  BY DEF LinkToHead, LockFree
<1>4. \A d \in Callers : Holds(d)' => d = c \/ Holds(d)
  BY <1>2 DEF Holds
<1>5. damage = 0 /\ n = HeadNumber => n + 1 \notin DOMAIN rows
  <2> SUFFICES ASSUME damage = 0, n = HeadNumber PROVE n + 1 \notin DOMAIN rows
    OBVIOUS
  <2>1. PICK N \in Nat : DOMAIN rows = 1 .. N
    BY DEF ChainInv, Chained, Gapless
  <2>2. CASE N = 0 BY <2>1, <2>2 DEF HeadNumber
  <2>3. CASE N > 0
    <3>1. N \in DOMAIN rows /\ \A m \in DOMAIN rows : m <= N BY <2>1, <2>3
    <3>2. HeadNumber \in DOMAIN rows /\ \A m \in DOMAIN rows : m <= HeadNumber
      BY <2>3, <3>1 DEF HeadNumber
    <3> QED BY <2>1, <3>2
  <2> QED BY <2>1, <2>2, <2>3
<1>6. ASSUME NEW d \in Callers, d # c
      PROVE  /\ (Holds(d)' <=> Holds(d))
             /\ (TakenByOther(d)' <=> TakenByOther(d))
  BY <1>2, <1>6 DEF TakenByOther, Holds
<1>7. \A d \in Callers, e \in Callers :
        Holds(d)' /\ Holds(e)' /\ LedgerOf[d] = LedgerOf[e] => d = e
  BY <1>3, <1>4 DEF LockInv
<1>8. damage = 0 => ~ (link'[c].fresh /\ link'[c].sequence \in DOMAIN rows')
  BY <1>2, <1>5
<1> QED BY <1>2, <1>6, <1>7, <1>8 DEF LockInv

LEMMA LockStep == ChainInv /\ LockInv /\ [LedgerNext]_ledgerVars => LockInv'
<1> SUFFICES ASSUME ChainInv, LockInv, [LedgerNext]_ledgerVars PROVE LockInv'
  OBVIOUS
<1>1. ASSUME NEW c \in Callers, Write(c) \/ WriteUnanswered(c) PROVE LockInv'
  <2>1. Holds(c) /\ UNCHANGED <<link, damage>>
    BY <1>1 DEF Write, WriteUnanswered
  <2>2. PICK s \in {"recorded", "failed"} : pc' = [pc EXCEPT ![c] = s]
    BY <1>1 DEF Write, WriteUnanswered
  <2>3. CASE rows' = Stored(c) /\ link[c].sequence \notin DOMAIN rows
    BY <2>1, <2>2, <2>3, LockStore
  <2>4. CASE UNCHANGED rows
    BY <2>1, <2>2, <2>4, LockNothing
  <2> QED BY <1>1, <2>3, <2>4 DEF Write, WriteUnanswered
<1>2. ASSUME NEW c \in Callers, Collide(c) PROVE LockInv'
  BY <1>2, LockNothing DEF Collide
<1>3. CASE Damage
  <2>1. damage' # 0 /\ UNCHANGED <<pc, link>> BY <1>3, DamageIsNoted
  <2> QED BY <2>1 DEF LockInv, Holds
<1>4. CASE UNCHANGED ledgerVars
  <2>1. \A d \in Callers : (TakenByOther(d)' <=> TakenByOther(d)) /\ (Holds(d)' <=> Holds(d))
    BY <1>4 DEF TakenByOther, Holds, ledgerVars
  <2> QED BY <1>4, <2>1 DEF LockInv, ledgerVars
<1> QED BY <1>1, <1>2, <1>3, <1>4, LockLink DEF LedgerNext, AppendStep

\* Two threads of a process never work on the same number: an append from the
\* true head fails only when another process was faster.
THEOREM LockKeepsNumbersApart == LedgerSpec => []CollisionsAreForeign
<1>1. LedgerInit => LockInv
  BY DEF LedgerInit, LockInv, Holds
<1>2. ChainInv /\ [LedgerNext]_ledgerVars => ChainInv' BY ChainInvStep
<1>3. ChainInv /\ LockInv /\ [LedgerNext]_ledgerVars => LockInv' BY LockStep
<1>4. LockInv => CollisionsAreForeign
  BY DEF LockInv, CollisionsAreForeign, TakenByOther
<1> QED BY <1>1, <1>2, <1>3, <1>4, ChainInvInit, PTL DEF LedgerSpec

-----------------------------------------------------------------------------
(* Where verify_integrity() stops after a change *)

Hashes == Seq(Nat \X Callers)

\* Until the change the hashes are lists of what was hashed, and no event is
\* in two rows.
HashesOK == \A n \in DOMAIN rows : rows[n].current \in Hashes

EventsUnique ==
  \A n \in DOMAIN rows, m \in DOMAIN rows : rows[n].event = rows[m].event => n = m

Done(e) == pc[e] \notin {"idle", "linking"}

\* The ways to break the chain at row d.
BrokenAt(d) == d \in DOMAIN rows /\ ~ Intact(d)

BrokenAfter(d) == {d, d + 1} \subseteq DOMAIN rows /\ ~ Intact(d + 1)

\* The row is gone.  An append from a stale head may take its number, yet the
\* row behind vouches for the event that was there.
Missing(d) ==
  /\ d \notin DOMAIN rows /\ d + 1 \in DOMAIN rows
  /\ HashAt(d - 1) \in Hashes
  /\ \E e \in Callers : Done(e) /\ rows[d + 1].previous = compute_hash(HashAt(d - 1), d, e)

Located(d) ==
  /\ \A m \in 1 .. d - 1 : Intact(m)
  /\ BrokenAt(d) \/ BrokenAfter(d) \/ Missing(d)

DamageInv ==
  /\ \A c \in Callers : Holds(c) /\ damage = 0 => link[c].previous \in Hashes
  /\ damage = 0 => HashesOK /\ EventsUnique
  /\ damage > 0 => Located(damage)

\* SHA-256 taken as injective.
LEMMA HashInjective ==
  ASSUME NEW h \in Hashes, NEW n \in Nat, NEW c \in Callers, NEW e,
         compute_hash(h, n, c) = compute_hash(h, n, e)
  PROVE  c = e
<1>1. compute_hash(h, n, c)[Len(h) + 1] = <<n, c>>
  BY DEF compute_hash, Hashes
<1>2. compute_hash(h, n, e)[Len(h) + 1] = <<n, e>>
  BY DEF compute_hash, Hashes
<1> QED BY <1>1, <1>2

LEMMA HashGrows ==
  ASSUME NEW h \in Hashes, NEW n \in Nat, NEW c \in Callers
  PROVE  compute_hash(h, n, c) \in Hashes
BY DEF compute_hash, Hashes

\* What a change to a row of an intact chain leaves.
LEMMA DamageBreaks ==
  ASSUME TypeInv, ChainInv, DamageInv, Damage
  PROVE  Located(damage)'
<1>1. PICK n \in DOMAIN rows :
        \/ EditEvent(n) \/ (n < HeadNumber /\ EditAndRehash(n)) \/ DeleteRow(n)
        \/ \E m \in DOMAIN rows : EditHash(n, m) \/ SwapRows(n, m)
  BY DEF Damage
<1>2. damage = 0 /\ damage' = n /\ UNCHANGED <<pc, link>>
  BY <1>1 DEF EditEvent, EditAndRehash, DeleteRow, EditHash, SwapRows, Change
<1>3. PICK N \in Nat : DOMAIN rows = 1 .. N
  BY <1>2 DEF ChainInv, Chained, Gapless
<1>4. n \in 1 .. N /\ n \in Nat /\ n - 1 \in 0 .. N /\ n - 1 < n
  BY <1>3
<1>5. \A m \in DOMAIN rows :
        /\ rows[m].previous = HashAt(m - 1)
        /\ rows[m].current = compute_hash(rows[m].previous, m, rows[m].event)
        /\ rows[m].event \in Callers /\ Done(rows[m].event)
        /\ rows[m].current \in Hashes
        /\ DOMAIN rows[m] = {"event", "previous", "current"}
  BY <1>2 DEF ChainInv, Chained, Intact, EventsOK, Done, DamageInv, HashesOK, TypeInv, LedgerTypeOK
<1>6. HashAt(n - 1) \in Hashes
  <2>1. <<>> \in Hashes BY DEF Hashes
  <2> QED BY <1>3, <1>4, <1>5, <2>1 DEF HashAt, GENESIS_HASH
<1>7. ASSUME NEW R, R = rows', \A m \in 1 .. n - 1 : m \in DOMAIN R /\ R[m] = rows[m]
      PROVE  /\ HashAt(n - 1)' = HashAt(n - 1)
             /\ \A m \in 1 .. n - 1 : Intact(m)'
  <2>1. \A m \in 0 .. n - 1 : HashAt(m)' = HashAt(m)
    BY <1>4, <1>7 DEF HashAt
  <2>2. ASSUME NEW m \in 1 .. n - 1 PROVE Intact(m)'
    <3>1. m \in DOMAIN rows /\ m - 1 \in 0 .. n - 1 BY <1>3, <1>4
    <3> QED BY <1>5, <1>7, <2>1, <3>1 DEF Intact
  <2> QED BY <1>4, <2>1, <2>2
<1>8. N = HeadNumber
  <2>1. N \in DOMAIN rows /\ \A m \in DOMAIN rows : m <= N BY <1>3, <1>4
  <2>2. PICK h \in DOMAIN rows : h = HeadNumber /\ \A m \in DOMAIN rows : m <= h
    BY <2>1 DEF HeadNumber
  <2>3. h \in Nat /\ h <= N /\ N <= h BY <1>3, <2>1, <2>2
  <2>4. h = N BY <2>3
  <2> QED BY <2>2, <2>4
<1>9. CASE EditEvent(n)
  <2>1. /\ DOMAIN rows' = DOMAIN rows
        /\ rows'[n].event = Forged
        /\ rows'[n].previous = rows[n].previous /\ rows'[n].current = rows[n].current
        /\ \A m \in DOMAIN rows : m # n => rows'[m] = rows[m]
    BY <1>5, <1>9 DEF EditEvent, Change
  <2>2. rows[n].current # compute_hash(rows[n].previous, n, Forged)
    BY <1>4, <1>5, <1>6, HashInjective, CallersAssumption
  <2>3. BrokenAt(n)' BY <2>1, <2>2 DEF BrokenAt, Intact
  <2>4. \A m \in 1 .. n - 1 : Intact(m)' BY <1>3, <1>4, <1>7, <2>1
  <2> QED BY <1>2, <2>3, <2>4 DEF Located
<1>10. CASE n < HeadNumber /\ EditAndRehash(n)
  <2>1. n + 1 \in DOMAIN rows /\ n + 1 # n /\ (n + 1) - 1 = n /\ n # 0
    BY <1>3, <1>4, <1>8, <1>10
  <2>2. /\ DOMAIN rows' = DOMAIN rows
        /\ rows'[n].current = compute_hash(rows[n].previous, n, Forged)
        /\ \A m \in DOMAIN rows : m # n => rows'[m] = rows[m]
    BY <1>5, <1>10 DEF EditAndRehash, Change
  <2>3. rows[n].current # compute_hash(rows[n].previous, n, Forged)
    BY <1>4, <1>5, <1>6, HashInjective, CallersAssumption
  <2>4. rows'[n + 1].previous = rows[n].current
    BY <1>5, <2>1, <2>2 DEF HashAt
  <2>5. HashAt(n)' = rows'[n].current
    BY <2>1 DEF HashAt
  <2>6. BrokenAfter(n)' BY <2>1, <2>2, <2>3, <2>4, <2>5 DEF BrokenAfter, Intact
  <2>7. \A m \in 1 .. n - 1 : Intact(m)' BY <1>3, <1>4, <1>7, <2>2
  <2> QED BY <1>2, <2>6, <2>7 DEF Located
<1>11. CASE DeleteRow(n)
  <2>1. n + 1 \in DOMAIN rows /\ n + 1 # n /\ (n + 1) - 1 = n /\ n # 0
    BY <1>3, <1>4, <1>8, <1>11 DEF DeleteRow
  <2>2. /\ DOMAIN rows' = DOMAIN rows \ {n}
        /\ \A m \in DOMAIN rows : m # n => rows'[m] = rows[m]
    BY <1>11 DEF DeleteRow, Change
  <2>3. HashAt(n - 1)' = HashAt(n - 1) /\ \A m \in 1 .. n - 1 : Intact(m)'
    BY <1>3, <1>4, <1>7, <2>2
  <2>4. PICK e \in Callers : e = rows[n].event
    BY <1>5
  <2>5. rows'[n + 1].previous = compute_hash(HashAt(n - 1), n, e)
    BY <1>5, <2>1, <2>2, <2>4 DEF HashAt
  <2>6. Done(e)'
    BY <1>2, <1>5, <2>4 DEF Done
  <2>7. n \notin DOMAIN rows' /\ n + 1 \in DOMAIN rows'
    BY <2>1, <2>2
  <2>8. Missing(n)'
    BY <1>6, <2>3, <2>5, <2>6, <2>7 DEF Missing, compute_hash
  <2> QED BY <1>2, <2>3, <2>8 DEF Located
<1>12. ASSUME NEW m \in DOMAIN rows, EditHash(n, m) PROVE Located(damage)'
  <2>1. /\ DOMAIN rows' = DOMAIN rows
        /\ rows'[n].event = rows[n].event
        /\ \/ rows'[n].previous # rows[n].previous
           \/ rows'[n].current # rows[n].current /\ rows'[n].previous = rows[n].previous
        /\ \A k \in DOMAIN rows : k # n => rows'[k] = rows[k]
    BY <1>5, <1>12 DEF EditHash, Change
  <2>2. HashAt(n - 1)' = HashAt(n - 1) /\ \A k \in 1 .. n - 1 : Intact(k)'
    BY <1>3, <1>4, <1>7, <2>1
  <2>3. BrokenAt(n)'
    BY <1>5, <2>1, <2>2 DEF BrokenAt, Intact
  <2> QED BY <1>2, <2>2, <2>3 DEF Located
<1>13. ASSUME NEW m \in DOMAIN rows, SwapRows(n, m) PROVE Located(damage)'
  <2>1. n < m /\ m # n BY <1>3, <1>13 DEF SwapRows
  <2>2. /\ DOMAIN rows' = DOMAIN rows
        /\ rows'[n].event = rows[m].event
        /\ rows'[n].previous = rows[n].previous /\ rows'[n].current = rows[n].current
        /\ \A k \in DOMAIN rows : k # n /\ k # m => rows'[k] = rows[k]
    BY <1>5, <1>13, <2>1 DEF SwapRows, Change
  <2>3. rows[m].event # rows[n].event
    BY <1>2, <2>1 DEF DamageInv, EventsUnique
  <2>4. rows[n].current # compute_hash(rows[n].previous, n, rows[m].event)
    BY <1>4, <1>5, <1>6, <2>3, HashInjective
  <2>5. BrokenAt(n)' BY <2>2, <2>4 DEF BrokenAt, Intact
  <2>6. \A k \in 1 .. n - 1 : Intact(k)' BY <1>3, <1>4, <1>7, <2>1, <2>2
  <2> QED BY <1>2, <2>5, <2>6 DEF Located
<1> QED BY <1>1, <1>9, <1>10, <1>11, <1>12, <1>13

LEMMA Finite ==
  ASSUME TypeInv
  PROVE  IsFiniteSet(DOMAIN rows)
<1>1. PICK N \in Nat : DOMAIN rows \subseteq 1 .. N
  BY DEF TypeInv, Numbered
<1>2. IsFiniteSet(1 .. N)
  BY FS_Interval
<1> QED BY <1>1, <1>2, FS_Subset

\* verify_integrity() stops at the first row that is broken.
LEMMA FirstBroken ==
  ASSUME TypeInv, NEW b \in Nat \ {0}, \A m \in 1 .. b - 1 : Intact(m),
         ~ Intact(b), NEW k \in DOMAIN rows, b <= k
  PROVE  ~ Valid /\ EventsChecked = b - 1
<1> DEFINE D == DOMAIN rows
<1>1. IsFiniteSet(D) /\ k \in Nat
  BY Finite DEF TypeInv, LedgerTypeOK
<1>2. (1 .. b - 1) \cup {k} \subseteq D
  BY DEF Intact
<1>3. IsFiniteSet(1 .. b - 1) /\ Cardinality(1 .. b - 1) = b - 1
  BY FS_Interval
<1>4. k \notin 1 .. b - 1
  BY <1>1
<1>5. Cardinality((1 .. b - 1) \cup {k}) = (b - 1) + 1
  BY <1>3, <1>4, FS_AddElement
<1>6. Cardinality(D) \in Nat /\ b <= Cardinality(D)
  <2>1. Cardinality((1 .. b - 1) \cup {k}) <= Cardinality(D)
    BY <1>1, <1>2, FS_Subset
  <2>2. Cardinality(D) \in Nat BY <1>1, FS_CardinalityType
  <2> QED BY <1>5, <2>1, <2>2
<1>7. {n \in 1 .. Cardinality(D) : \A m \in 1 .. n : Intact(m)} = 1 .. b - 1
  <2>1. ASSUME NEW n \in 1 .. Cardinality(D), \A m \in 1 .. n : Intact(m)
        PROVE  n \in 1 .. b - 1
    <3>1. ~ b \in 1 .. n BY <2>1
    <3> QED BY <1>6, <3>1
  <2>2. ASSUME NEW n \in 1 .. b - 1
        PROVE  n \in 1 .. Cardinality(D) /\ \A m \in 1 .. n : Intact(m)
    BY <1>6
  <2> QED BY <2>1, <2>2
<1>8. EventsChecked = b - 1
  BY <1>3, <1>7 DEF EventsChecked
<1> QED BY <1>6, <1>8 DEF Valid

LEMMA LocatedIsReported ==
  ASSUME TypeInv, DamageInv
  PROVE  DamageLocated
<1> SUFFICES ASSUME damage > 0
             PROVE  ~ Valid /\ EventsChecked \in {damage - 1, damage}
  BY DEF DamageLocated
<1> DEFINE d == damage
<1>1. d \in Nat \ {0} /\ Located(d)
  BY DEF DamageInv, TypeInv, LedgerTypeOK
<1>2. CASE BrokenAt(d)
  BY <1>1, <1>2, FirstBroken DEF Located, BrokenAt
<1>3. CASE BrokenAfter(d) /\ Intact(d)
  <2>1. \A m \in 1 .. (d + 1) - 1 : Intact(m)
    BY <1>1, <1>3 DEF Located
  <2>2. ~ Intact(d + 1) /\ d + 1 \in DOMAIN rows /\ d + 1 \in Nat \ {0}
    BY <1>1, <1>3 DEF BrokenAfter
  <2>3. ~ Valid /\ EventsChecked = (d + 1) - 1
    BY <2>1, <2>2, FirstBroken
  <2> QED BY <1>1, <2>3
<1>4. CASE BrokenAfter(d) /\ ~ Intact(d)
  BY <1>1, <1>4, FirstBroken DEF Located, BrokenAfter
<1>5. CASE Missing(d)
  <2>1. ~ Intact(d) /\ d + 1 \in DOMAIN rows /\ d <= d + 1
    BY <1>1, <1>5 DEF Missing, Intact
  <2> QED BY <1>1, <2>1, FirstBroken DEF Located
<1> QED BY <1>1, <1>2, <1>3, <1>4, <1>5 DEF Located

\* Appends leave a broken chain broken where it is.
LEMMA LocatedStays ==
  ASSUME NEW d \in Nat \ {0}, Located(d),
         \A n \in DOMAIN rows : n \in DOMAIN rows' /\ rows'[n] = rows[n],
         \A e \in Callers : Done(e) => Done(e)',
         \A n \in DOMAIN rows' : n \notin DOMAIN rows =>
           \E c \in Callers : ~ Done(c) /\ rows'[n].current = compute_hash(link[c].previous, n, c)
                              /\ rows'[n].previous = link[c].previous
  PROVE  Located(d)'
<1>1. \A m \in 0 .. d - 1 : HashAt(m)' = HashAt(m)
  BY DEF Located, Intact, HashAt
<1>2. \A m \in 1 .. d - 1 : Intact(m)'
  <2> SUFFICES ASSUME NEW m \in 1 .. d - 1 PROVE Intact(m)'
    OBVIOUS
  <2>1. Intact(m) /\ m - 1 \in 0 .. d - 1 BY DEF Located
  <2> QED BY <1>1, <2>1 DEF Intact
<1>3. HashAt(d - 1)' = HashAt(d - 1)
  BY <1>1
<1>4. CASE BrokenAt(d)
  <2>1. BrokenAt(d)' BY <1>3, <1>4 DEF BrokenAt, Intact
  <2> QED BY <1>2, <2>1 DEF Located
<1>5. CASE BrokenAfter(d)
  <2>1. (d + 1) - 1 = d /\ d # 0 OBVIOUS
  <2>2. HashAt(d)' = HashAt(d) BY <1>5, <2>1 DEF BrokenAfter, HashAt
  <2>3. BrokenAfter(d)' BY <1>5, <2>1, <2>2 DEF BrokenAfter, Intact
  <2> QED BY <1>2, <2>3 DEF Located
<1>6. CASE Missing(d)
  <2>1. PICK e \in Callers : Done(e) /\ rows[d + 1].previous = compute_hash(HashAt(d - 1), d, e)
    BY <1>6 DEF Missing
  <2>2. d + 1 \in DOMAIN rows /\ HashAt(d - 1) \in Hashes
    BY <1>6 DEF Missing
  <2>3. CASE d \notin DOMAIN rows'
    <3>1. Missing(d)' BY <1>3, <2>1, <2>2, <2>3 DEF Missing, compute_hash, Hashes
    <3> QED BY <1>2, <3>1 DEF Located
  <2>4. CASE d \in DOMAIN rows'
    <3>1. PICK c \in Callers : ~ Done(c)
                /\ rows'[d].current = compute_hash(link[c].previous, d, c)
                /\ rows'[d].previous = link[c].previous
      BY <1>6, <2>4 DEF Missing
    <3>2. CASE rows'[d].previous # HashAt(d - 1)
      <4>1. BrokenAt(d)' BY <1>3, <2>4, <3>2 DEF BrokenAt, Intact
      <4> QED BY <1>2, <4>1 DEF Located
    <3>3. CASE rows'[d].previous = HashAt(d - 1)
      <4>1. rows'[d].current = compute_hash(HashAt(d - 1), d, c) BY <3>1, <3>3
      <4>2. c # e BY <2>1, <3>1
      <4>3. rows'[d].current # rows[d + 1].previous
        BY <2>1, <2>2, <4>1, <4>2, HashInjective
      <4>4. (d + 1) - 1 = d /\ d # 0 OBVIOUS
      <4>5. HashAt(d)' = rows'[d].current BY <4>4 DEF HashAt
      <4>6. BrokenAfter(d)'
        BY <2>2, <2>4, <4>3, <4>4, <4>5 DEF BrokenAfter, Intact
      <4> QED BY <1>2, <4>6 DEF Located
    <3> QED BY <3>2, <3>3
  <2> QED BY <2>3, <2>4
<1> QED BY <1>4, <1>5, <1>6 DEF Located

\* A step that stores nothing changes nothing an audit could see.
LEMMA DamageNothing ==
  ASSUME TypeInv, DamageInv, UNCHANGED <<rows, damage>>,
         \A e \in Callers : Done(e) => Done(e)',
         \A c \in Callers : Holds(c)' /\ damage = 0 => link'[c].previous \in Hashes
  PROVE  DamageInv'
<1>1. ASSUME damage > 0 PROVE Located(damage)'
  <2>1. damage \in Nat \ {0} /\ Located(damage)
    BY <1>1 DEF DamageInv, TypeInv, LedgerTypeOK
  <2>2. Located(damage) => Located(damage)'
    <3> DEFINE d == damage
    <3>1. ASSUME NEW e \in Nat \ {0}, Located(e) PROVE Located(e)'
      BY <3>1, LocatedStays
    <3>2. PICK e \in Nat \ {0} : e = damage BY <2>1
    <3>3. Located(e) => Located(e)' BY <3>1, <3>2
    <3> QED BY <3>2, <3>3 DEF Located
  <2> QED BY <2>1, <2>2
<1>2. (HashesOK /\ EventsUnique)' <=> (HashesOK /\ EventsUnique)
  BY DEF HashesOK, EventsUnique
<1> QED BY <1>1, <1>2 DEF DamageInv

LEMMA DamageStore ==
  ASSUME TypeInv, ChainInv, DamageInv, NEW c \in Callers, Holds(c),
         link[c].sequence \notin DOMAIN rows, rows' = Stored(c),
         NEW s, s \notin {"idle", "linking"}, pc' = [pc EXCEPT ![c] = s],
         UNCHANGED <<link, damage>>
  PROVE  DamageInv'
<1> DEFINE q == link[c].sequence
<1>1. /\ DOMAIN rows' = DOMAIN rows \cup {q}
      /\ rows'[q] = Row(c)
      /\ \A n \in DOMAIN rows : n # q /\ rows'[n] = rows[n]
  BY DEF Stored
<1>2. /\ rows'[q].event = c /\ rows'[q].previous = link[c].previous
      /\ rows'[q].current = compute_hash(link[c].previous, q, c)
  BY <1>1 DEF Row
<1>3. \A d \in Callers : pc'[d] = IF d = c THEN s ELSE pc[d]
  BY DEF ChainInv
<1>4. q \in Nat \ {0}
  BY DEF TypeInv, LedgerTypeOK
<1>5. ASSUME damage > 0 PROVE Located(damage)'
  <2>1. PICK d \in Nat \ {0} : d = damage /\ Located(d)
    BY <1>5 DEF DamageInv, TypeInv, LedgerTypeOK
  <2>2. \A e \in Callers : Done(e) => Done(e)'
    BY <1>3 DEF Done
  <2>3. ~ Done(c) BY DEF Done, Holds
  <2>4. Located(d)'
    BY <1>1, <1>2, <2>1, <2>2, <2>3, LocatedStays
  <2> QED BY <2>1, <2>4 DEF Located
<1>6. ASSUME damage = 0 PROVE (HashesOK /\ EventsUnique)'
  <2>1. link[c].previous \in Hashes BY <1>6 DEF DamageInv
  <2>2. HashesOK' BY <1>1, <1>2, <1>4, <1>6, <2>1, HashGrows DEF DamageInv, HashesOK
  <2>3. \A n \in DOMAIN rows : rows[n].event # c
    BY <1>6 DEF ChainInv, Chained, EventsOK, Holds
  <2>4. EventsUnique' BY <1>1, <1>2, <1>6, <2>3 DEF DamageInv, EventsUnique
  <2> QED BY <2>2, <2>4
<1>7. \A d \in Callers : Holds(d)' => Holds(d)
  BY <1>3 DEF Holds
<1> QED BY <1>5, <1>6, <1>7 DEF DamageInv

LEMMA DamageLink ==
  ASSUME TypeInv, ChainInv, DamageInv, NEW c \in Callers, LinkToHead(c)
  PROVE  DamageInv'
<1>1. PICK n \in Heads : Link(c, n, n + 1)
  BY DEF LinkToHead
<1>2. /\ UNCHANGED <<rows, damage>>
      /\ \A d \in Callers : pc'[d] = IF d = c THEN "linking" ELSE pc[d]
      /\ \A d \in Callers : d # c => link'[d] = link[d]
      /\ link'[c].previous = HashAt(n)
  BY <1>1 DEF Link, ChainInv
<1>3. \A e \in Callers : Done(e) => Done(e)'
  BY <1>2 DEF Done, LinkToHead
<1>4. damage = 0 => HashAt(n) \in Hashes
  <2>1. <<>> \in Hashes BY DEF Hashes
  <2>2. damage = 0 => n \in DOMAIN rows \cup {0}
    BY HeadsOK DEF ChainInv, Chained
  <2> QED BY <2>1, <2>2 DEF HashAt, GENESIS_HASH, DamageInv, HashesOK
<1>5. \A d \in Callers : Holds(d)' /\ damage = 0 => link'[d].previous \in Hashes
  BY <1>2, <1>4 DEF Holds, DamageInv
<1> QED BY <1>2, <1>3, <1>5, DamageNothing

LEMMA DamageStep ==
  TypeInv /\ ChainInv /\ DamageInv /\ TypeInv' /\ [LedgerNext]_ledgerVars => DamageInv'
<1> SUFFICES ASSUME TypeInv, ChainInv, DamageInv, TypeInv', [LedgerNext]_ledgerVars
             PROVE  DamageInv'
  OBVIOUS
<1>1. ASSUME NEW c \in Callers, Write(c) \/ WriteUnanswered(c) \/ Collide(c) PROVE DamageInv'
  <2>1. Holds(c) /\ UNCHANGED <<link, damage>>
    BY <1>1 DEF Write, WriteUnanswered, Collide
  <2>2. PICK s \in {"recorded", "failed", "collided"} : pc' = [pc EXCEPT ![c] = s]
    BY <1>1 DEF Write, WriteUnanswered, Collide
  <2>3. CASE rows' = Stored(c) /\ link[c].sequence \notin DOMAIN rows
    BY <2>1, <2>2, <2>3, DamageStore
  <2>4. CASE UNCHANGED rows
    <3>1. \A d \in Callers : pc'[d] = IF d = c THEN s ELSE pc[d]
      BY <2>2 DEF ChainInv
    <3>2. \A e \in Callers : Done(e) => Done(e)'
      BY <3>1 DEF Done
    <3>3. \A d \in Callers : Holds(d)' => Holds(d)
      BY <3>1 DEF Holds
    <3> QED BY <2>1, <2>4, <3>2, <3>3, DamageNothing DEF DamageInv
  <2> QED BY <1>1, <2>3, <2>4 DEF Write, WriteUnanswered, Collide
<1>2. CASE Damage
  <2>1. damage' \in Nat \ {0} BY <1>2, DamageIsNoted
  <2>2. Located(damage)' BY <1>2, DamageBreaks
  <2> QED BY <2>1, <2>2 DEF DamageInv
<1>3. CASE UNCHANGED ledgerVars
  BY <1>3, DamageNothing DEF ledgerVars, DamageInv, Done, Holds
<1> QED BY <1>1, <1>2, <1>3, DamageLink DEF LedgerNext, AppendStep

LEMMA DamageInit == LedgerInit => DamageInv
<1> SUFFICES ASSUME LedgerInit PROVE DamageInv
  OBVIOUS
<1>1. DOMAIN rows = {} /\ damage = 0 /\ \A c \in Callers : ~ Holds(c)
  BY DEF LedgerInit, Holds
<1> QED BY <1>1 DEF DamageInv, HashesOK, EventsUnique

\* However many appends follow, verify_integrity() rejects a table in which a
\* row was changed, and vouches for the rows up to that one or the one before.
THEOREM DamageIsLocated == LedgerSpec => []DamageLocated
<1>1. TypeInv /\ [LedgerNext]_ledgerVars => TypeInv' BY TypeStep
<1>2. ChainInv /\ [LedgerNext]_ledgerVars => ChainInv' BY ChainInvStep
<1>3. TypeInv /\ ChainInv /\ DamageInv /\ TypeInv' /\ [LedgerNext]_ledgerVars => DamageInv'
  BY DamageStep
<1>4. TypeInv /\ DamageInv => DamageLocated BY LocatedIsReported
<1> QED BY <1>1, <1>2, <1>3, <1>4, TypeInit, ChainInvInit, DamageInit, PTL DEF LedgerSpec

-----------------------------------------------------------------------------
(* Confirmed events *)

RecordedInv ==
  damage = 0 => \A c \in Callers : pc[c] = "recorded" => \E n \in DOMAIN rows : rows[n].event = c

LEMMA RecordedStep == ChainInv /\ RecordedInv /\ [LedgerNext]_ledgerVars => RecordedInv'
<1> SUFFICES ASSUME ChainInv, RecordedInv, [LedgerNext]_ledgerVars, damage' = 0
             PROVE  \A c \in Callers : pc'[c] = "recorded" => \E n \in DOMAIN rows' : rows'[n].event = c
  BY DEF RecordedInv
<1>1. ASSUME NEW c \in Callers, LinkToHead(c) \/ Collide(c)
      PROVE  /\ UNCHANGED <<rows, damage>>
             /\ \A d \in Callers : pc'[d] = "recorded" => pc[d] = "recorded"
  BY <1>1 DEF LinkToHead, Link, Collide, ChainInv
<1>2. ASSUME NEW c \in Callers, Write(c) \/ WriteUnanswered(c)
      PROVE  \A d \in Callers : pc'[d] = "recorded" => \E n \in DOMAIN rows' : rows'[n].event = d
  <2>1. /\ damage = 0
        /\ \A d \in Callers : d # c => pc'[d] = pc[d]
        /\ pc'[c] = "recorded" => Write(c)
    BY <1>2 DEF Write, WriteUnanswered, ChainInv
  <2>2. \A n \in DOMAIN rows : n \in DOMAIN rows' /\ rows'[n] = rows[n]
    BY <1>2 DEF Write, WriteUnanswered, Stored
  <2>3. Write(c) => \E n \in DOMAIN rows' : rows'[n].event = c
    <3>1. ASSUME Write(c)
          PROVE  link[c].sequence \in DOMAIN rows' /\ rows'[link[c].sequence].event = c
      BY <3>1 DEF Write, Stored, Row
    <3> QED BY <3>1
  <2> QED BY <2>1, <2>2, <2>3 DEF RecordedInv
<1>3. ~ Damage BY DamageIsNoted
<1>4. CASE UNCHANGED ledgerVars BY <1>4 DEF ledgerVars, RecordedInv
<1> QED BY <1>1, <1>2, <1>3, <1>4 DEF LedgerNext, AppendStep, RecordedInv

\* A chain that verifies holds every event whose append was confirmed, whatever
\* was done to a row.
THEOREM VerifiedHoldsRecorded == LedgerSpec => []RecordedIsVouched
<1>1. LedgerInit => RecordedInv
  BY DEF LedgerInit, RecordedInv
<1>2. TypeInv /\ [LedgerNext]_ledgerVars => TypeInv' BY TypeStep
<1>3. ChainInv /\ [LedgerNext]_ledgerVars => ChainInv' BY ChainInvStep
<1>4. ChainInv /\ RecordedInv /\ [LedgerNext]_ledgerVars => RecordedInv' BY RecordedStep
<1>5. TypeInv /\ DamageLocated /\ RecordedInv => RecordedIsVouched
  <2> SUFFICES ASSUME TypeInv, DamageLocated, RecordedInv, Valid
               PROVE  \A c \in Callers : pc[c] = "recorded" => \E n \in DOMAIN rows : rows[n].event = c
    BY DEF RecordedIsVouched
  <2>1. damage \in Nat /\ ~ damage > 0 BY DEF TypeInv, LedgerTypeOK, DamageLocated
  <2> QED BY <2>1 DEF RecordedInv
<1> QED BY <1>1, <1>2, <1>3, <1>4, <1>5, TypeInit, ChainInvInit, DamageIsLocated, PTL
        DEF LedgerSpec

-----------------------------------------------------------------------------
(* An audit while others append *)

\* An audit changes nothing: with it the ledger is the ledger without it.
THEOREM AuditsOnlyRead == ReadsSpec => LedgerSpec
<1>1. ReadsInit => LedgerInit
  BY DEF ReadsInit
<1>2. [ReadsNext]_readVars => [LedgerNext]_ledgerVars
  BY DEF ReadsNext, readVars, BeginAudit, ReadPage, Answer, ledgerVars
<1> QED BY <1>1, <1>2, PTL DEF ReadsSpec, LedgerSpec

\* What was read is a beginning of the chain.
SeenInv ==
  damage = 0 =>
    \E k \in Nat : /\ DOMAIN seen = 1 .. k
                   /\ \A n \in 1 .. k : n \in DOMAIN rows /\ seen[n] = rows[n]

\* A page continues what was read.
LEMMA PageContinues ==
  ASSUME NEW N \in Nat, DOMAIN rows = 1 .. N, NEW k \in Nat, DOMAIN seen = 1 .. k,
         NEW newest \in 0 .. N
  PROVE  \E j \in Nat : 1 .. k \cup Page(newest) = 1 .. j /\ Page(newest) \subseteq 1 .. N
<1>1. LastSeen = k
  <2>1. CASE k = 0 BY <2>1 DEF LastSeen
  <2>2. CASE k > 0
    <3>1. k \in DOMAIN seen /\ \A m \in DOMAIN seen : m <= k BY <2>2
    <3>2. PICK l \in DOMAIN seen : l = LastSeen /\ \A m \in DOMAIN seen : m <= l
      BY <2>2, <3>1 DEF LastSeen
    <3>3. l \in Nat /\ l <= k /\ k <= l BY <3>1, <3>2
    <3>4. l = k BY <3>3
    <3> QED BY <3>2, <3>4
  <2> QED BY <2>1, <2>2
<1>2. Unread(newest) = k + 1 .. newest
  BY <1>1 DEF Unread
<1>3. \A n \in k + 1 .. newest : Cardinality({m \in Unread(newest) : m <= n}) = n - k
  <2> SUFFICES ASSUME NEW n \in k + 1 .. newest
               PROVE  Cardinality({m \in Unread(newest) : m <= n}) = n - k
    OBVIOUS
  <2>1. {m \in Unread(newest) : m <= n} = k + 1 .. n
    BY <1>2
  <2>2. Cardinality(k + 1 .. n) = n - (k + 1) + 1
    BY FS_Interval
  <2>3. n - (k + 1) + 1 = n - k
    OBVIOUS
  <2> QED BY <2>1, <2>2, <2>3
<1>4. Page(newest) = {n \in k + 1 .. newest : n - k <= PageSize}
  BY <1>2, <1>3 DEF Page
<1>5. CASE newest <= k
  <2>1. Page(newest) = {} BY <1>4, <1>5
  <2> QED BY <2>1
<1>6. CASE k < newest /\ newest - k <= PageSize
  <2>1. Page(newest) = k + 1 .. newest BY <1>4, <1>6, PageAssumption
  <2>2. 1 .. k \cup Page(newest) = 1 .. newest BY <1>6, <2>1
  <2> QED BY <2>1, <2>2
<1>7. CASE newest - k > PageSize
  <2>1. Page(newest) = k + 1 .. k + PageSize BY <1>4, <1>7, PageAssumption
  <2>2. 1 .. k \cup Page(newest) = 1 .. k + PageSize BY <2>1, PageAssumption
  <2> QED BY <1>7, <2>1, <2>2, PageAssumption
<1> QED BY <1>5, <1>6, <1>7, PageAssumption

LEMMA SeenStep == ChainInv /\ ChainInv' /\ SeenInv /\ [ReadsNext]_readVars => SeenInv'
<1> SUFFICES ASSUME ChainInv, ChainInv', SeenInv, [ReadsNext]_readVars, damage' = 0
             PROVE  SeenInv'
  BY DEF SeenInv
<1>1. CASE LedgerNext /\ UNCHANGED auditVars
  <2>1. ~ Damage /\ seen' = seen
    BY <1>1, DamageIsNoted DEF auditVars
  <2>2. PICK c \in Callers : AppendStep(c)
    BY <1>1, <2>1 DEF LedgerNext
  <2>3. damage = 0 /\ \A n \in DOMAIN rows : n \in DOMAIN rows' /\ rows'[n] = rows[n]
    BY <2>2 DEF AppendStep, LinkToHead, Link, Write, Collide, WriteUnanswered, Stored
  <2> QED BY <2>1, <2>3 DEF SeenInv
<1>2. CASE BeginAudit
  BY <1>2 DEF BeginAudit, SeenInv, ledgerVars
<1>3. CASE ReadPage
  <2>1. PICK newest \in Heads :
          seen' = [n \in DOMAIN seen \cup Page(newest) |->
                     IF n \in DOMAIN seen THEN seen[n] ELSE rows[n]]
    BY <1>3 DEF ReadPage
  <2>2. UNCHANGED <<rows, damage>>
    BY <1>3 DEF ReadPage, ledgerVars
  <2>3. Gapless BY <2>2 DEF ChainInv, Chained
  <2>4. PICK N \in Nat : DOMAIN rows = 1 .. N
    BY <2>3 DEF Gapless
  <2>5. newest \in 0 .. N
    BY <2>3, <2>4, HeadsOK
  <2>6. PICK k \in Nat : /\ DOMAIN seen = 1 .. k
                         /\ \A n \in 1 .. k : n \in DOMAIN rows /\ seen[n] = rows[n]
    BY <2>2 DEF SeenInv
  <2>7. PICK j \in Nat : 1 .. k \cup Page(newest) = 1 .. j /\ Page(newest) \subseteq 1 .. N
    BY <2>4, <2>5, <2>6, PageContinues
  <2>8. DOMAIN seen' = 1 .. j
    BY <2>1, <2>6, <2>7
  <2>9. \A n \in 1 .. j : n \in DOMAIN rows' /\ seen'[n] = rows'[n]
    BY <2>1, <2>2, <2>4, <2>6, <2>7
  <2> QED BY <2>8, <2>9 DEF SeenInv
<1>4. CASE Answer
  <2>1. DOMAIN seen' = 1 .. 0
    BY <1>4 DEF Answer
  <2> QED BY <2>1 DEF SeenInv
<1>5. CASE UNCHANGED readVars
  BY <1>5 DEF readVars, auditVars, ledgerVars, SeenInv
<1> QED BY <1>1, <1>2, <1>3, <1>4, <1>5 DEF ReadsNext

LEMMA SeenIsValid ==
  ASSUME ChainInv, SeenInv, damage = 0
  PROVE  Seen!Valid
<1>1. PICK k \in Nat : /\ DOMAIN seen = 1 .. k
                       /\ \A n \in 1 .. k : n \in DOMAIN rows /\ seen[n] = rows[n]
  BY DEF SeenInv
<1>2. \A n \in 0 .. k : Seen!HashAt(n) = HashAt(n)
  BY <1>1 DEF Seen!HashAt, HashAt, Seen!GENESIS_HASH, GENESIS_HASH
<1>3. \A n \in 1 .. k : Seen!Intact(n)
  <2> SUFFICES ASSUME NEW n \in 1 .. k PROVE Seen!Intact(n)
    OBVIOUS
  <2>1. Intact(n) BY <1>1 DEF ChainInv, Chained
  <2>2. Seen!HashAt(n - 1) = HashAt(n - 1) BY <1>2
  <2> QED BY <1>1, <2>1, <2>2 DEF Intact, Seen!Intact, compute_hash, Seen!compute_hash
<1>4. Cardinality(1 .. k) = k
  BY FS_Interval
<1>5. {n \in 1 .. k : \A m \in 1 .. n : Seen!Intact(m)} = 1 .. k
  BY <1>3
<1>6. \A S : Seen!Cardinality(S) = Cardinality(S)
  BY Zenon DEF Seen!Cardinality, Cardinality
<1> QED BY <1>1, <1>4, <1>5, <1>6 DEF Seen!Valid, Seen!EventsChecked

\* An audit of a table nobody changed never reports a broken chain, whatever is
\* appended between its pages and from whichever replicas they come.
THEOREM NoAuditCriesWolf == ReadsSpec => []NoFalseAlarm
<1>1. ReadsInit => ChainInv /\ SeenInv
  <2>1. ReadsInit => SeenInv
    <3> SUFFICES ASSUME ReadsInit PROVE SeenInv
      OBVIOUS
    <3>1. DOMAIN seen = 1 .. 0 BY DEF ReadsInit
    <3> QED BY <3>1 DEF SeenInv
  <2> QED BY <2>1, ChainInvInit DEF ReadsInit
<1>2. ChainInv /\ [ReadsNext]_readVars => ChainInv'
  <2>1. [ReadsNext]_readVars => [LedgerNext]_ledgerVars
    BY DEF ReadsNext, readVars, BeginAudit, ReadPage, Answer, ledgerVars
  <2> QED BY <2>1, ChainInvStep
<1>3. ChainInv /\ ChainInv' /\ SeenInv /\ [ReadsNext]_readVars => SeenInv' BY SeenStep
<1>4. ChainInv /\ SeenInv => NoFalseAlarm BY SeenIsValid DEF NoFalseAlarm
<1> QED BY <1>1, <1>2, <1>3, <1>4, PTL DEF ReadsSpec

-----------------------------------------------------------------------------
(* What an audit has read when somebody changes the table *)

\* A bounded set of numbers has a highest one.
LEMMA HighestOf ==
  ASSUME NEW S, S \subseteq Nat, S # {}, NEW N \in Nat, \A m \in S : m <= N
  PROVE  \E h \in S : \A m \in S : m <= h
<1> DEFINE Bounds == {b \in Nat : \A m \in S : m <= b}
<1>1. PICK b \in Bounds : \A a \in Bounds : ~ (<<a, b>> \in OpToRel(<, Nat))
  <2> HIDE DEF Bounds
  <2>1. Bounds \subseteq Nat /\ Bounds # {} BY DEF Bounds
  <2> QED BY <2>1, NatLessThanWellFounded, WFMin
<1>2. \A a \in Bounds : ~ a < b
  BY <1>1 DEF OpToRel
<1>3. CASE b \in S BY <1>3
<1>4. CASE b \notin S
  <2>1. \A m \in S : m \in Nat /\ m < b BY <1>4
  <2>2. b > 0
    <3>1. PICK m \in S : m \in Nat OBVIOUS
    <3> QED BY <2>1, <3>1
  <2>3. \A m \in S : m <= b - 1 BY <2>1
  <2>4. b - 1 \in Bounds /\ b - 1 < b BY <2>2, <2>3
  <2> QED BY <1>2, <2>4
<1> QED BY <1>3, <1>4

\* Only the number of a deleted row is ever free below the highest one, and
\* whoever is about to write wants a number that was taken or is the next.
AtMostOneGap ==
  \E N \in Nat :
    /\ DOMAIN rows \subseteq 1 .. N /\ 1 .. N \ {damage} \subseteq DOMAIN rows
    /\ damage <= N
    /\ N > 0 => N \in DOMAIN rows
    /\ \A c \in Callers : Holds(c) => link[c].sequence \in 1 .. N + 1

LEMMA GapInit == LedgerInit => AtMostOneGap
<1> SUFFICES ASSUME LedgerInit PROVE AtMostOneGap
  OBVIOUS
<1>1. DOMAIN rows = {} /\ damage = 0 /\ \A c \in Callers : ~ Holds(c)
  BY DEF LedgerInit, Holds
<1>2. 1 .. 0 = {} OBVIOUS
<1> QED BY <1>1, <1>2 DEF AtMostOneGap

LEMMA GapStep == TypeInv /\ ChainInv /\ AtMostOneGap /\ [LedgerNext]_ledgerVars => AtMostOneGap'
<1> SUFFICES ASSUME TypeInv, ChainInv, AtMostOneGap, [LedgerNext]_ledgerVars PROVE AtMostOneGap'
  OBVIOUS
<1>1. PICK N \in Nat :
        /\ DOMAIN rows \subseteq 1 .. N /\ 1 .. N \ {damage} \subseteq DOMAIN rows
        /\ damage <= N
        /\ N > 0 => N \in DOMAIN rows
        /\ \A c \in Callers : Holds(c) => link[c].sequence \in 1 .. N + 1
  BY DEF AtMostOneGap
<1>2. damage \in Nat /\ DOMAIN pc = Callers /\ DOMAIN link = Callers
  BY DEF ChainInv
<1>3. ASSUME NEW c \in Callers, LinkToHead(c) PROVE AtMostOneGap'
  <2>1. PICK n \in Heads : Link(c, n, n + 1) BY <1>3 DEF LinkToHead
  <2>2. n \in 0 .. N
    <3>1. n \in DOMAIN rows \cup {0} BY HeadsTyped DEF Heads
    <3> QED BY <1>1, <3>1
  <2>3. \A d \in Callers : Holds(d)' =>
          link'[d].sequence \in 1 .. N + 1
    <3>1. ASSUME NEW d \in Callers, d # c, Holds(d)' PROVE link'[d].sequence \in 1 .. N + 1
      BY <1>1, <1>2, <2>1, <3>1 DEF Link, Holds
    <3>2. link'[c].sequence = n + 1 BY <1>2, <2>1 DEF Link
    <3>3. n + 1 \in 1 .. N + 1 BY <2>2
    <3> QED BY <3>1, <3>2, <3>3
  <2>4. UNCHANGED <<rows, damage>> BY <2>1 DEF Link
  <2> QED BY <1>1, <2>3, <2>4 DEF AtMostOneGap
<1>4. ASSUME NEW c \in Callers, Write(c) \/ WriteUnanswered(c) \/ Collide(c) PROVE AtMostOneGap'
  <2>1. /\ Holds(c) /\ UNCHANGED <<link, damage>>
        /\ \A d \in Callers : Holds(d)' => Holds(d)
    BY <1>2, <1>4 DEF Write, WriteUnanswered, Collide, Holds
  <2>2. CASE UNCHANGED rows BY <1>1, <2>1, <2>2 DEF AtMostOneGap
  <2>3. CASE rows' = Stored(c) /\ link[c].sequence \notin DOMAIN rows
    <3>1. DOMAIN rows' = DOMAIN rows \cup {link[c].sequence} BY <2>3 DEF Stored
    <3>2. link[c].sequence = N + 1 \/ link[c].sequence = damage BY <1>1, <2>1, <2>3
    <3>3. CASE link[c].sequence = N + 1
      <4>1. /\ DOMAIN rows' \subseteq 1 .. N + 1 /\ 1 .. N + 1 \ {damage} \subseteq DOMAIN rows'
            /\ damage <= N + 1 /\ N + 1 \in DOMAIN rows'
        BY <1>1, <1>2, <3>1, <3>3
      <4>2. \A d \in Callers : Holds(d)' => link[d].sequence \in 1 .. (N + 1) + 1
        BY <1>1, <2>1
      <4> QED BY <2>1, <4>1, <4>2 DEF AtMostOneGap
    <3>4. CASE link[c].sequence = damage
      <4>1. damage \in 1 .. N BY <1>1, <1>2, <2>1, <3>4
      <4>2. /\ DOMAIN rows' \subseteq 1 .. N /\ 1 .. N \ {damage} \subseteq DOMAIN rows'
            /\ N > 0 => N \in DOMAIN rows'
        BY <1>1, <3>1, <3>4, <4>1
      <4> QED BY <1>1, <2>1, <4>2 DEF AtMostOneGap
    <3> QED BY <3>2, <3>3, <3>4
  <2> QED BY <1>4, <2>2, <2>3 DEF Write, WriteUnanswered, Collide
<1>5. CASE Damage
  <2>1. PICK n \in DOMAIN rows :
          \/ EditEvent(n) \/ EditAndRehash(n) \/ DeleteRow(n)
          \/ \E m \in DOMAIN rows : EditHash(n, m) \/ SwapRows(n, m)
    BY <1>5 DEF Damage
  <2>2. damage = 0 /\ damage' = n /\ UNCHANGED <<pc, link>>
    BY <2>1 DEF EditEvent, EditAndRehash, DeleteRow, EditHash, SwapRows, Change
  <2>3. \/ DOMAIN rows' = DOMAIN rows
        \/ DOMAIN rows' = DOMAIN rows \ {n} /\ n < HeadNumber
    BY <2>1 DEF EditEvent, EditAndRehash, DeleteRow, EditHash, SwapRows, Change
  <2>4. n \in 1 .. N BY <1>1
  <2>5. n < HeadNumber => n # N
    <3>1. HeadNumber \in DOMAIN rows \cup {0} BY HeadsTyped
    <3>2. HeadNumber <= N BY <1>1, <3>1
    <3> QED BY <1>1, <2>4, <3>1, <3>2
  <2>6. /\ DOMAIN rows' \subseteq 1 .. N /\ 1 .. N \ {n} \subseteq DOMAIN rows'
        /\ n <= N /\ (N > 0 => N \in DOMAIN rows')
    BY <1>1, <2>2, <2>3, <2>4, <2>5
  <2> QED BY <1>1, <2>2, <2>6 DEF AtMostOneGap, Holds
<1>6. CASE UNCHANGED ledgerVars
  BY <1>1, <1>6 DEF ledgerVars, AtMostOneGap, Holds
<1> QED BY <1>3, <1>4, <1>5, <1>6 DEF LedgerNext, AppendStep

\* The rows the audit has still to come to.
Ahead(n) == \A k \in DOMAIN seen : k < n

Faithful == \A n \in DOMAIN seen : n \in DOMAIN rows /\ seen[n] = rows[n]

\* Nothing is skipped but a row whose number was free when the audit passed it.
Complete == \A n \in DOMAIN rows : n \in DOMAIN seen \/ Ahead(n) \/ n = damage

SeenNumbers == DOMAIN seen \subseteq DOMAIN rows \cup {damage}

LEMMA LastSeenIsHighest ==
  ASSUME TypeInv, AtMostOneGap, SeenNumbers
  PROVE  /\ \A k \in DOMAIN seen : k \in Nat /\ k <= LastSeen
         /\ LastSeen \in DOMAIN seen \cup {0} /\ LastSeen \in Nat
<1>1. PICK N \in Nat : DOMAIN rows \subseteq 1 .. N /\ damage <= N
  BY DEF AtMostOneGap
<1>2. DOMAIN seen \subseteq Nat /\ \A k \in DOMAIN seen : k <= N
  BY <1>1 DEF SeenNumbers, TypeInv, LedgerTypeOK
<1>3. CASE DOMAIN seen = {} BY <1>3 DEF LastSeen
<1>4. CASE DOMAIN seen # {}
  <2>1. \E h \in DOMAIN seen : \A m \in DOMAIN seen : m <= h
    <3> DEFINE S == DOMAIN seen
    <3> HIDE DEF S
    <3>1. S \subseteq Nat /\ S # {} /\ \A k \in S : k <= N BY <1>2, <1>4 DEF S
    <3>2. \E h \in S : \A m \in S : m <= h BY <3>1, HighestOf
    <3> QED BY <3>2 DEF S
  <2>2. LastSeen \in DOMAIN seen /\ \A m \in DOMAIN seen : m <= LastSeen
    BY <1>4, <2>1 DEF LastSeen
  <2> QED BY <1>2, <2>2
<1> QED BY <1>3, <1>4

\* A page leaves out no row before one it holds.
LEMMA PageFromStart ==
  ASSUME TypeInv, NEW newest, NEW n \in Page(newest), NEW m \in Unread(newest), m <= n
  PROVE  m \in Page(newest)
<1> DEFINE To(k) == {j \in Unread(newest) : j <= k}
<1>1. n \in Nat /\ m \in Nat /\ \A j \in Unread(newest) : j \in Nat
  BY DEF Page, Unread, TypeInv, LedgerTypeOK
<1>2. To(m) \subseteq To(n)
  <2>1. ASSUME NEW j \in Unread(newest), j <= m PROVE j <= n
    <3>1. j \in Nat BY <1>1
    <3> QED BY <1>1, <2>1, <3>1
  <2> QED BY <2>1
<1>3. IsFiniteSet(To(n))
  <2>1. To(n) \subseteq DOMAIN rows BY DEF Unread
  <2> QED BY <2>1, Finite, FS_Subset
<1>4. Cardinality(To(m)) <= Cardinality(To(n))
  BY <1>2, <1>3, FS_Subset
<1>5. Cardinality(To(m)) \in Nat /\ Cardinality(To(n)) \in Nat
  BY <1>2, <1>3, FS_Subset, FS_CardinalityType
<1>6. Cardinality(To(n)) <= PageSize
  BY DEF Page
<1>7. Cardinality(To(m)) <= PageSize
  BY <1>4, <1>5, <1>6, PageAssumption
<1> QED BY <1>7 DEF Page

\* A query reads rows ahead of the audit, from the first of them on, and none
\* is left after the last query of an up-to-date replica.
LEMMA PageReads ==
  ASSUME TypeInv, AtMostOneGap, SeenNumbers, UNCHANGED rows, NEW newest \in Heads,
         seen' = [n \in DOMAIN seen \cup Page(newest) |->
                    IF n \in DOMAIN seen THEN seen[n] ELSE rows[n]]
  PROVE  /\ DOMAIN seen \subseteq DOMAIN seen' /\ DOMAIN seen' \subseteq DOMAIN seen \cup DOMAIN rows
         /\ \A n \in DOMAIN seen : seen'[n] = seen[n]
         /\ \A n \in DOMAIN seen' \ DOMAIN seen : seen'[n] = rows[n]
         /\ \A n \in DOMAIN rows : Ahead(n) => \/ n \in DOMAIN seen' /\ seen'[n] = rows[n]
                                              \/ Ahead(n)'
         /\ newest = HeadNumber /\ LastPage(newest) => \A n \in DOMAIN rows : ~ Ahead(n)'
<1>1. /\ \A k \in DOMAIN seen : k \in Nat /\ k <= LastSeen
      /\ LastSeen \in DOMAIN seen \cup {0} /\ LastSeen \in Nat
  BY LastSeenIsHighest
<1>2. \A n \in DOMAIN rows : n \in Nat \ {0}
  BY DEF TypeInv, LedgerTypeOK
<1>3. \A n \in Page(newest) : n \in DOMAIN rows /\ LastSeen < n /\ n <= newest
  BY DEF Page, Unread
<1>4. newest \in Nat
  BY HeadsTyped
<1>5. \A n \in DOMAIN rows : Ahead(n) => LastSeen < n
  BY <1>1, <1>2 DEF Ahead
<1>6. ASSUME NEW n \in DOMAIN rows, Ahead(n)
      PROVE  \/ n \in DOMAIN seen' /\ seen'[n] = rows[n]
             \/ Ahead(n)'
  <2>1. n \notin DOMAIN seen BY <1>2, <1>6 DEF Ahead
  <2>2. CASE n \in Page(newest) BY <2>1, <2>2
  <2>3. CASE n \notin Page(newest)
    <3>1. ASSUME NEW k \in Page(newest) PROVE k < n
      <4>1. CASE newest < n BY <1>2, <1>3, <1>4, <4>1
      <4>2. CASE n <= newest
        <5>1. n \in Unread(newest) BY <1>5, <1>6, <4>2 DEF Unread
        <5>2. ~ n <= k BY <2>3, <5>1, PageFromStart
        <5> QED BY <1>2, <1>3, <5>2
      <4> QED BY <1>2, <1>4, <4>1, <4>2
    <3> QED BY <1>6, <3>1 DEF Ahead
  <2> QED BY <2>2, <2>3
<1>7. ASSUME newest = HeadNumber, LastPage(newest), NEW n \in DOMAIN rows, Ahead(n)'
      PROVE  FALSE
  <2>1. Ahead(n) BY <1>7 DEF Ahead
  <2>2. n <= newest
    <3>1. PICK h \in DOMAIN rows : \A m \in DOMAIN rows : m <= h
      BY <1>7 DEF TypeInv, Numbered
    <3>2. \A m \in DOMAIN rows : m <= HeadNumber BY <3>1 DEF HeadNumber
    <3> QED BY <1>7, <3>2
  <2>3. n \in Page(newest) BY <1>5, <1>7, <2>1, <2>2 DEF Unread, LastPage
  <2>4. n \in DOMAIN seen' BY <2>3
  <2> QED BY <1>2, <1>7, <2>4 DEF Ahead
<1> QED BY <1>3, <1>6, <1>7

\* A row that was read as it is or is still ahead.
Reached(m) ==
  /\ m \in DOMAIN rows
  /\ \/ Ahead(m)
     \/ m \in DOMAIN seen /\ seen[m] = rows[m]

\* The hash of the row is not that of its content.
SelfBroken(m) == rows[m].current # compute_hash(rows[m].previous, m, rows[m].event)

Covered(c) ==
  \/ \E n \in DOMAIN seen : seen[n].event = c
  \/ \E n \in DOMAIN rows : Ahead(n) /\ rows[n].event = c

\* A change among the rows already read may leave the audit with a chain that
\* never was in the table at one time; then it has every event that was
\* confirmed, or a row that gives the change away.
AuditInv ==
  /\ audit = "none" => DOMAIN seen = {} /\ known = {} /\ before = 0
  /\ known \subseteq {c \in Callers : pc[c] = "recorded"}
  /\ before \in Nat /\ (before > 0 => damage = before)
  /\ SeenNumbers
  /\ Complete
  /\ damage = 0 \/ before > 0 => Faithful
  /\ damage > 0 => \/ Faithful
                   \/ \E m \in DOMAIN rows : Reached(m) /\ SelfBroken(m)
                   \/ \A c \in known : Covered(c)
  /\ upToDate /\ audit = "done" => \A n \in DOMAIN rows : ~ Ahead(n)

LEMMA AuditInit == ReadsInit => AuditInv
<1> SUFFICES ASSUME ReadsInit PROVE AuditInv
  OBVIOUS
<1>1. DOMAIN rows = {} /\ DOMAIN seen = {} /\ audit = "none" /\ known = {} /\ before = 0
  BY DEF ReadsInit, LedgerInit
<1> QED BY <1>1 DEF AuditInv, SeenNumbers, Complete, Faithful

\* Rows that are added while an audit reads are ahead of it, save one that
\* takes the number of a deleted row.
LEMMA AuditGrows ==
  ASSUME TypeInv, AuditInv, UNCHANGED <<auditVars, damage>>,
         \A n \in DOMAIN rows : n \in DOMAIN rows' /\ rows'[n] = rows[n],
         \A n \in DOMAIN rows' : \/ n \in DOMAIN rows \/ n = damage
                                 \/ damage < n /\ \A m \in DOMAIN rows : m < n,
         \A c \in Callers : pc[c] = "recorded" => pc'[c] = "recorded",
         audit = "done" => UNCHANGED rows
  PROVE  AuditInv'
<1>1. UNCHANGED <<audit, seen, upToDate, known, before, damage>>
  BY DEF auditVars
<1>2. \A n : Ahead(n)' <=> Ahead(n)
  BY <1>1 DEF Ahead
<1>3. Complete'
  BY <1>1, <1>2 DEF AuditInv, SeenNumbers, Complete, Ahead
<1>4. Faithful => Faithful'
  BY <1>1 DEF Faithful
<1>5. ASSUME NEW m \in DOMAIN rows, Reached(m), SelfBroken(m)
      PROVE  m \in DOMAIN rows' /\ Reached(m)' /\ SelfBroken(m)'
  BY <1>1, <1>2, <1>5 DEF Reached, SelfBroken, compute_hash
<1>6. \A c : Covered(c) => Covered(c)'
  BY <1>1, <1>2 DEF Covered
<1>7. SeenNumbers'
  BY <1>1 DEF AuditInv, SeenNumbers
<1>8. audit = "done" => \A n \in DOMAIN rows' : Ahead(n)' => n \in DOMAIN rows /\ Ahead(n)
  BY <1>2
<1>9. damage > 0 => Faithful' \/ (\E m \in DOMAIN rows' : Reached(m)' /\ SelfBroken(m)')
                    \/ \A c \in known : Covered(c)'
  BY <1>4, <1>5, <1>6 DEF AuditInv
<1> QED BY <1>1, <1>3, <1>4, <1>7, <1>8, <1>9 DEF AuditInv

LEMMA AuditAppend ==
  ASSUME TypeInv, ChainInv, AtMostOneGap, AuditInv, audit # "done", UNCHANGED auditVars,
         NEW c \in Callers, AppendStep(c)
  PROVE  AuditInv'
<1>1. PICK N \in Nat :
        /\ DOMAIN rows \subseteq 1 .. N /\ 1 .. N \ {damage} \subseteq DOMAIN rows
        /\ damage <= N
        /\ \A d \in Callers : Holds(d) => link[d].sequence \in 1 .. N + 1
  BY DEF AtMostOneGap
<1>2. UNCHANGED damage /\ \A d \in Callers : pc[d] = "recorded" => pc'[d] = "recorded"
  BY DEF AppendStep, LinkToHead, Link, Write, Collide, WriteUnanswered, Holds, ChainInv
<1>3. CASE UNCHANGED rows
  BY <1>2, <1>3, AuditGrows
<1>4. CASE Holds(c) /\ rows' = Stored(c) /\ link[c].sequence \notin DOMAIN rows
  <2>1. /\ DOMAIN rows' = DOMAIN rows \cup {link[c].sequence}
        /\ \A n \in DOMAIN rows : rows'[n] = rows[n]
    BY <1>4 DEF Stored
  <2>2. link[c].sequence = damage \/ link[c].sequence = N + 1
    BY <1>1, <1>4
  <2>3. damage \in Nat BY DEF ChainInv
  <2>4. damage < N + 1 /\ \A m \in DOMAIN rows : m < N + 1
    BY <1>1, <2>3
  <2> QED BY <1>2, <2>1, <2>2, <2>4, AuditGrows
<1> QED BY <1>3, <1>4 DEF AppendStep, LinkToHead, Link, Write, Collide, WriteUnanswered

\* Two rows that trade their contents both give it away.
LEMMA SwappedIsBroken ==
  ASSUME TypeInv, ChainInv, DamageInv, NEW n \in DOMAIN rows, NEW m \in DOMAIN rows, SwapRows(n, m)
  PROVE  m \in DOMAIN rows' /\ SelfBroken(m)'
<1>1. damage = 0 /\ n # m /\ m \in Nat
  BY DEF SwapRows, Change, TypeInv, LedgerTypeOK
<1>2. /\ rows[m].current = compute_hash(rows[m].previous, m, rows[m].event)
      /\ rows[m].previous = HashAt(m - 1)
      /\ rows[m].event \in Callers
      /\ DOMAIN rows[m] = {"event", "previous", "current"}
  BY <1>1 DEF ChainInv, Chained, Intact, EventsOK, TypeInv, LedgerTypeOK
<1>3. rows[m].previous \in Hashes
  <2>1. <<>> \in Hashes BY DEF Hashes
  <2>2. m - 1 = 0 \/ m - 1 \in DOMAIN rows
    BY <1>1 DEF ChainInv, Chained, Gapless, TypeInv, LedgerTypeOK
  <2> QED BY <1>1, <1>2, <2>1, <2>2 DEF HashAt, GENESIS_HASH, DamageInv, HashesOK
<1>4. rows[n].event # rows[m].event
  BY <1>1 DEF DamageInv, EventsUnique
<1>5. /\ DOMAIN rows' = DOMAIN rows
      /\ rows'[m].event = rows[n].event
      /\ rows'[m].previous = rows[m].previous /\ rows'[m].current = rows[m].current
  BY <1>1, <1>2 DEF SwapRows, Change
<1>6. rows[m].current # compute_hash(rows[m].previous, m, rows[n].event)
  BY <1>1, <1>2, <1>3, <1>4, HashInjective
<1> QED BY <1>5, <1>6 DEF SelfBroken, compute_hash

LEMMA AuditDamage ==
  ASSUME TypeInv, ChainInv, DamageInv, RecordedInv, AuditInv, audit # "done", UNCHANGED auditVars, Damage
  PROVE  AuditInv'
<1>1. PICK n \in DOMAIN rows :
        \/ EditEvent(n) \/ EditAndRehash(n) \/ DeleteRow(n)
        \/ \E m \in DOMAIN rows : EditHash(n, m) \/ SwapRows(n, m)
  BY DEF Damage
<1>2. /\ damage = 0 /\ damage' = n /\ UNCHANGED <<pc, link>>
      /\ UNCHANGED <<audit, seen, upToDate, known, before>>
  BY <1>1 DEF EditEvent, EditAndRehash, DeleteRow, EditHash, SwapRows, Change, auditVars
<1>3. n \in Nat \ {0} /\ \A k \in DOMAIN rows : k \in Nat \ {0}
  BY DEF TypeInv, LedgerTypeOK
<1>4. before = 0 /\ Faithful
  BY <1>2, <1>3 DEF AuditInv
<1>5. DOMAIN rows' = DOMAIN rows \/ DOMAIN rows' = DOMAIN rows \ {n}
  BY <1>1 DEF EditEvent, EditAndRehash, DeleteRow, EditHash, SwapRows, Change
<1>6. \A k : Ahead(k)' <=> Ahead(k)
  BY <1>2 DEF Ahead
<1>7. SeenNumbers'
  BY <1>2, <1>4, <1>5 DEF SeenNumbers, Faithful
<1>8. Complete'
  BY <1>2, <1>3, <1>5, <1>6 DEF AuditInv, Complete
<1>9. \A k \in DOMAIN rows : k \in DOMAIN seen \/ Ahead(k)
  BY <1>2, <1>3 DEF AuditInv, Complete
\* If the row was not read yet, nothing that was read has changed.
<1>10. CASE Ahead(n)
  <2>1. \A k \in DOMAIN seen : k # n /\ k < n BY <1>3, <1>10 DEF Ahead
  <2>2. ASSUME NEW k \in DOMAIN seen PROVE k \in DOMAIN rows' /\ rows'[k] = rows[k]
    <3>1. k \in DOMAIN rows /\ k # n /\ k \in Nat /\ k < n BY <1>3, <1>4, <2>1 DEF Faithful
    <3>2. CASE \E m \in DOMAIN rows : SwapRows(n, m)
      <4>1. PICK m \in DOMAIN rows : SwapRows(n, m) BY <3>2
      <4>2. n < m /\ m \in Nat BY <1>3, <4>1 DEF SwapRows
      <4>3. k # m BY <1>3, <3>1, <4>2
      <4> QED BY <3>1, <4>1, <4>3 DEF SwapRows, Change
    <3>3. CASE ~ \E m \in DOMAIN rows : SwapRows(n, m)
      BY <1>1, <3>1, <3>3 DEF EditEvent, EditAndRehash, DeleteRow, EditHash, Change
    <3> QED BY <3>2, <3>3
  <2>3. Faithful' BY <1>2, <1>4, <2>2 DEF Faithful
  <2> QED BY <1>2, <1>3, <1>4, <1>7, <1>8, <2>3 DEF AuditInv
\* Otherwise the rows ahead are as they were, or one of them gives it away.
<1>11. CASE ~ Ahead(n)
  <2>1. ASSUME NEW c \in known PROVE Covered(c)
    <3>1. PICK k \in DOMAIN rows : rows[k].event = c
      BY <1>2 DEF AuditInv, RecordedInv
    <3>2. k \in DOMAIN seen => seen[k].event = c BY <1>4, <3>1 DEF Faithful
    <3> QED BY <1>9, <3>1, <3>2 DEF Covered
  <2>2. CASE \A k \in DOMAIN rows : Ahead(k) => k \in DOMAIN rows' /\ rows'[k] = rows[k]
    <3>1. \A c \in known : Covered(c)'
      BY <1>2, <1>6, <2>1, <2>2 DEF Covered
    <3> QED BY <1>2, <1>3, <1>4, <1>7, <1>8, <3>1 DEF AuditInv
  <2>3. ASSUME NEW k \in DOMAIN rows, Ahead(k), ~ (k \in DOMAIN rows' /\ rows'[k] = rows[k])
        PROVE  k \in DOMAIN rows' /\ Reached(k)' /\ SelfBroken(k)'
    <3>1. k # n BY <1>11, <2>3
    <3>2. PICK m \in DOMAIN rows : SwapRows(n, m)
      BY <1>1, <2>3, <3>1 DEF EditEvent, EditAndRehash, DeleteRow, EditHash, Change
    <3>3. k = m BY <2>3, <3>1, <3>2 DEF SwapRows, Change
    <3>4. k \in DOMAIN rows' /\ SelfBroken(k)' BY <3>2, <3>3, SwappedIsBroken
    <3> QED BY <1>6, <2>3, <3>4 DEF Reached
  <2> QED BY <1>2, <1>3, <1>4, <1>7, <1>8, <2>2, <2>3 DEF AuditInv
<1> QED BY <1>10, <1>11

LEMMA AuditReads ==
  ASSUME TypeInv, AtMostOneGap, AuditInv, ReadPage
  PROVE  AuditInv'
<1>1. PICK newest \in Heads :
        /\ seen' = [n \in DOMAIN seen \cup Page(newest) |->
                      IF n \in DOMAIN seen THEN seen[n] ELSE rows[n]]
        /\ upToDate' = (upToDate /\ newest = HeadNumber)
        /\ LastPage(newest) \/ audit' = "reading"
  BY DEF ReadPage
<1>2. /\ UNCHANGED <<rows, pc, damage, known, before>>
      /\ audit' \in {"reading", "done"}
  BY DEF ReadPage, ledgerVars
<1>3. SeenNumbers BY DEF AuditInv
<1>4. /\ DOMAIN seen \subseteq DOMAIN seen' /\ DOMAIN seen' \subseteq DOMAIN seen \cup DOMAIN rows
      /\ \A n \in DOMAIN seen : seen'[n] = seen[n]
      /\ \A n \in DOMAIN seen' \ DOMAIN seen : seen'[n] = rows[n]
      /\ \A n \in DOMAIN rows : Ahead(n) => \/ n \in DOMAIN seen' /\ seen'[n] = rows[n]
                                           \/ Ahead(n)'
      /\ newest = HeadNumber /\ LastPage(newest) => \A n \in DOMAIN rows : ~ Ahead(n)'
  BY <1>1, <1>2, <1>3, PageReads
<1>5. SeenNumbers' BY <1>2, <1>3, <1>4 DEF SeenNumbers
<1>6. Complete' BY <1>2, <1>4 DEF AuditInv, Complete
<1>7. Faithful => Faithful' BY <1>2, <1>4 DEF Faithful
<1>8. \A m \in DOMAIN rows : Reached(m) /\ SelfBroken(m) => Reached(m)' /\ SelfBroken(m)'
  BY <1>2, <1>4 DEF Reached, SelfBroken, compute_hash
<1>9. \A c : Covered(c) => Covered(c)'
  BY <1>2, <1>4 DEF Covered
<1>10. upToDate' /\ audit' = "done" => \A n \in DOMAIN rows' : ~ Ahead(n)'
  BY <1>1, <1>2, <1>4
<1> QED BY <1>2, <1>5, <1>6, <1>7, <1>8, <1>9, <1>10 DEF AuditInv

LEMMA AuditStep ==
  /\ TypeInv /\ ChainInv /\ DamageInv /\ RecordedInv /\ AtMostOneGap /\ AuditInv
  /\ [ReadsNext]_readVars
  => AuditInv'
<1> SUFFICES ASSUME TypeInv, ChainInv, DamageInv, RecordedInv, AtMostOneGap, AuditInv,
                    [ReadsNext]_readVars
             PROVE  AuditInv'
  OBVIOUS
<1>1. CASE audit # "done" /\ LedgerNext /\ UNCHANGED auditVars
  BY <1>1, AuditAppend, AuditDamage DEF LedgerNext
<1>2. CASE BeginAudit
  <2>1. /\ UNCHANGED <<seen, rows, pc, damage>> /\ DOMAIN seen = {}
        /\ audit' = "reading" /\ before' = damage
        /\ known' = {c \in Callers : pc[c] = "recorded"}
    BY <1>2 DEF BeginAudit, AuditInv, ledgerVars
  <2>2. SeenNumbers' /\ Complete' /\ Faithful'
    BY <2>1 DEF SeenNumbers, Complete, Faithful, Ahead
  <2>3. damage \in Nat BY DEF ChainInv
  <2> QED BY <2>1, <2>2, <2>3 DEF AuditInv
<1>3. CASE ReadPage
  BY <1>3, AuditReads
<1>4. CASE Answer
  <2>1. /\ UNCHANGED <<rows, pc, damage>> /\ DOMAIN seen' = {}
        /\ audit' = "none" /\ before' = 0 /\ known' = {}
    BY <1>4 DEF Answer, ledgerVars
  <2>2. SeenNumbers' /\ Complete' /\ Faithful'
    BY <2>1 DEF SeenNumbers, Complete, Faithful, Ahead
  <2> QED BY <2>1, <2>2 DEF AuditInv
<1>5. CASE UNCHANGED readVars
  <2>1. UNCHANGED <<auditVars, rows, pc, damage>> BY <1>5 DEF readVars, ledgerVars
  <2> QED BY <2>1, AuditGrows
<1> QED BY <1>1, <1>2, <1>3, <1>4, <1>5 DEF ReadsNext

-----------------------------------------------------------------------------
(* What verify_integrity() makes of what was read *)

LEMMA SeenFinite ==
  ASSUME TypeInv, AtMostOneGap, SeenNumbers
  PROVE  IsFiniteSet(DOMAIN seen)
<1>1. DOMAIN seen \subseteq Nat /\ LastSeen \in Nat /\ \A k \in DOMAIN seen : k <= LastSeen
  BY LastSeenIsHighest
<1> QED BY <1>1, FS_BoundedSetOfNaturals

LEMMA SeenCardinality == \A S : Seen!Cardinality(S) = Cardinality(S)
BY Zenon DEF Seen!Cardinality, Cardinality

\* A chain is valid only if every row that was read is in order.
LEMMA SeenValidIsIntact ==
  ASSUME IsFiniteSet(DOMAIN seen), Seen!Valid, NEW n \in DOMAIN seen
  PROVE  Seen!Intact(n)
<1> DEFINE K == Cardinality(DOMAIN seen)
<1> DEFINE Good == {j \in 1 .. K : \A m \in 1 .. j : Seen!Intact(m)}
<1>1. K \in Nat BY FS_CardinalityType
<1>2. IsFiniteSet(1 .. K) /\ Cardinality(1 .. K) = K BY <1>1, FS_Interval
<1>3. Cardinality(Good) = K
  BY SeenCardinality DEF Seen!Valid, Seen!EventsChecked
<1>4. Good \subseteq 1 .. K OBVIOUS
<1>5. Good = 1 .. K
  <2> HIDE DEF Good, K
  <2> QED BY <1>2, <1>3, <1>4, FS_Subset
<1>6. \A j \in 1 .. K : Seen!Intact(j)
  BY <1>1, <1>5
<1>7. 1 .. K \subseteq DOMAIN seen
  BY <1>6 DEF Seen!Intact
<1>8. 1 .. K = DOMAIN seen
  <2> HIDE DEF K
  <2>1. K = Cardinality(DOMAIN seen) BY DEF K
  <2> QED BY <1>2, <1>7, <2>1, FS_Subset
<1> QED BY <1>6, <1>8

LEMMA FirstNumbersCounted == \A n \in Nat : IsFiniteSet(1 .. n) /\ Cardinality(1 .. n) = n
<1> SUFFICES ASSUME NEW n \in Nat PROVE IsFiniteSet(1 .. n) /\ Cardinality(1 .. n) = n
  OBVIOUS
<1> QED BY FS_Interval

\* It stops at the first row that is broken or was not read.
LEMMA SeenStops ==
  ASSUME IsFiniteSet(DOMAIN seen), NEW b \in Nat \ {0}, \A m \in 1 .. b - 1 : Seen!Intact(m),
         ~ Seen!Intact(b), NEW k \in DOMAIN seen, k \in Nat, b <= k
  PROVE  ~ Seen!Valid /\ Seen!EventsChecked = b - 1
<1> DEFINE D == DOMAIN seen
<1>1. (1 .. b - 1) \cup {k} \subseteq D
  BY DEF Seen!Intact
<1>2. IsFiniteSet(1 .. b - 1) /\ Cardinality(1 .. b - 1) = b - 1
  BY FirstNumbersCounted
<1>3. Cardinality((1 .. b - 1) \cup {k}) = (b - 1) + 1
  <2>1. k \notin 1 .. b - 1 OBVIOUS
  <2> QED BY <1>2, <2>1, FS_AddElement
<1>4. Cardinality(D) \in Nat /\ b <= Cardinality(D)
  <2>1. Cardinality((1 .. b - 1) \cup {k}) <= Cardinality(D)
    BY <1>1, FS_Subset
  <2>2. Cardinality(D) \in Nat BY FS_CardinalityType
  <2> QED BY <1>3, <2>1, <2>2
<1>5. {n \in 1 .. Cardinality(D) : \A m \in 1 .. n : Seen!Intact(m)} = 1 .. b - 1
  <2>1. ASSUME NEW n \in 1 .. Cardinality(D), \A m \in 1 .. n : Seen!Intact(m)
        PROVE  n \in 1 .. b - 1
    <3>1. ~ b \in 1 .. n BY <2>1
    <3> QED BY <1>4, <3>1
  <2>2. ASSUME NEW n \in 1 .. b - 1
        PROVE  n \in 1 .. Cardinality(D) /\ \A m \in 1 .. n : Seen!Intact(m)
    BY <1>4
  <2> QED BY <2>1, <2>2
<1>6. Seen!EventsChecked = b - 1
  BY <1>2, <1>5, SeenCardinality DEF Seen!EventsChecked
<1> QED BY <1>4, <1>6, SeenCardinality DEF Seen!Valid

\* A row is in order in what was read if it is in the table, as long as the row
\* before it was read as well.
LEMMA SeenIntact ==
  ASSUME TypeInv, Faithful, NEW n \in DOMAIN seen, n = 1 \/ n - 1 \in DOMAIN seen
  PROVE  Seen!Intact(n) <=> Intact(n)
<1>1. n \in DOMAIN rows /\ seen[n] = rows[n]
  BY DEF Faithful
<1>2. n - 1 = 0 \/ n - 1 \in DOMAIN seen
  OBVIOUS
<1>3. Seen!HashAt(n - 1) = HashAt(n - 1)
  BY <1>2 DEF Faithful, Seen!HashAt, HashAt, Seen!GENESIS_HASH, GENESIS_HASH
<1> QED BY <1>1, <1>3 DEF Seen!Intact, Intact, Seen!compute_hash, compute_hash

\* An audit that read the changed row, or the gap it left, reports it.
LEMMA DamageIsRead ==
  ASSUME TypeInv, AtMostOneGap, DamageInv, AuditInv, damage > 0, Faithful,
         \A n \in DOMAIN rows : ~ Ahead(n)
  PROVE  ~ Seen!Valid /\ Seen!EventsChecked \in {damage - 1, damage}
<1>1. PICK d \in Nat \ {0} : d = damage /\ Located(d)
  BY DEF DamageInv, TypeInv, LedgerTypeOK
<1>2. \A n \in DOMAIN rows : n # d => n \in DOMAIN seen
  BY <1>1 DEF AuditInv, Complete
<1>3. IsFiniteSet(DOMAIN seen) /\ \A k \in DOMAIN seen : k \in Nat
  BY SeenFinite, LastSeenIsHighest DEF AuditInv
<1>4. \A m \in 1 .. d - 1 : m \in DOMAIN seen
  BY <1>1, <1>2 DEF Located, Intact
<1>5. \A m \in 1 .. d - 1 : Seen!Intact(m)
  <2> SUFFICES ASSUME NEW m \in 1 .. d - 1 PROVE Seen!Intact(m)
    OBVIOUS
  <2>1. m = 1 \/ m - 1 \in 1 .. d - 1 OBVIOUS
  <2>2. Intact(m) BY <1>1 DEF Located
  <2> QED BY <1>4, <2>1, <2>2, SeenIntact
<1>6. d = 1 \/ d - 1 \in DOMAIN seen
  <2>1. d = 1 \/ d - 1 \in 1 .. d - 1 BY <1>1
  <2> QED BY <1>4, <2>1
<1>7. CASE d \notin DOMAIN seen
  <2>1. ~ Seen!Intact(d) BY <1>7 DEF Seen!Intact
  <2>2. \E k \in DOMAIN seen : d <= k
    <3>1. CASE d \in DOMAIN rows
      <4>1. PICK k \in DOMAIN seen : ~ k < d BY <3>1 DEF Ahead
      <4> QED BY <1>3, <4>1
    <3>2. CASE d \notin DOMAIN rows
      <4>1. d + 1 \in DOMAIN rows BY <1>1, <3>2 DEF Located, BrokenAt, BrokenAfter, Missing
      <4>2. d + 1 \in DOMAIN seen BY <1>1, <1>2, <4>1
      <4> QED BY <4>2
    <3> QED BY <3>1, <3>2
  <2> QED BY <1>1, <1>3, <1>5, <2>1, <2>2, SeenStops
<1>8. CASE d \in DOMAIN seen /\ ~ Intact(d)
  <2>1. ~ Seen!Intact(d) BY <1>6, <1>8, SeenIntact
  <2> QED BY <1>1, <1>3, <1>5, <1>8, <2>1, SeenStops
<1>9. CASE d \in DOMAIN seen /\ Intact(d)
  <2>1. d + 1 \in DOMAIN rows /\ ~ Intact(d + 1)
    BY <1>1, <1>9 DEF Located, BrokenAt, BrokenAfter, Missing, Intact
  <2>2. d + 1 \in DOMAIN seen /\ (d + 1) - 1 \in DOMAIN seen
    BY <1>1, <1>2, <1>9, <2>1
  <2>3. ~ Seen!Intact(d + 1) BY <2>1, <2>2, SeenIntact
  <2>4. Seen!Intact(d) BY <1>6, <1>9, SeenIntact
  <2>5. \A m \in 1 .. (d + 1) - 1 : Seen!Intact(m) BY <1>1, <1>5, <2>4
  <2>6. d + 1 \in Nat \ {0} BY <1>1
  <2>7. ~ Seen!Valid /\ Seen!EventsChecked = (d + 1) - 1
    BY <1>3, <2>2, <2>3, <2>5, <2>6, SeenStops
  <2> QED BY <1>1, <2>7
<1> QED BY <1>7, <1>8, <1>9

LEMMA AuditIsRight ==
  ASSUME TypeInv, AtMostOneGap, DamageInv, RecordedInv, AuditInv
  PROVE  AuditCovers
<1> SUFFICES ASSUME audit = "done", upToDate
             PROVE  /\ before > 0 => ~ Seen!Valid /\ Seen!EventsChecked \in {before - 1, before}
                    /\ Seen!Valid => \A c \in known : \E n \in DOMAIN seen : seen[n].event = c
  BY DEF AuditCovers
<1>1. \A n \in DOMAIN rows : ~ Ahead(n)
  BY DEF AuditInv
<1>2. before > 0 => ~ Seen!Valid /\ Seen!EventsChecked \in {before - 1, before}
  BY <1>1, DamageIsRead DEF AuditInv
<1>3. ASSUME Seen!Valid, NEW c \in known PROVE \E n \in DOMAIN seen : seen[n].event = c
  <2>1. CASE damage = 0
    <3>1. PICK n \in DOMAIN rows : rows[n].event = c BY <2>1, <1>3 DEF AuditInv, RecordedInv
    <3>2. n \in DOMAIN seen BY <1>1, <2>1 DEF AuditInv, Complete, TypeInv, LedgerTypeOK
    <3> QED BY <2>1, <3>1, <3>2 DEF AuditInv, Faithful
  <2>2. CASE damage > 0
    <3>1. ~ Faithful BY <1>1, <1>3, <2>2, DamageIsRead
    <3>2. ASSUME NEW m \in DOMAIN rows, Reached(m), SelfBroken(m) PROVE FALSE
      <4>1. m \in DOMAIN seen /\ seen[m] = rows[m] BY <1>1, <3>2 DEF Reached
      <4>2. Seen!Intact(m) BY <1>3, <4>1, SeenFinite, SeenValidIsIntact DEF AuditInv
      <4> QED BY <3>2, <4>1, <4>2 DEF Seen!Intact, SelfBroken, Seen!compute_hash, compute_hash
    <3>3. Covered(c) BY <1>3, <2>2, <3>1, <3>2 DEF AuditInv
    <3> QED BY <1>1, <3>3 DEF Covered
  <2>3. damage \in Nat BY DEF TypeInv, LedgerTypeOK
  <2> QED BY <2>1, <2>2, <2>3
<1> QED BY <1>2, <1>3

\* An up-to-date audit finds what was changed before it began, and one that
\* reports a valid chain has read every event that was confirmed by then,
\* whatever is appended or changed between its pages.
THEOREM AuditsCoverThePast == ReadsSpec => []AuditCovers
<1> DEFINE Inv == /\ TypeInv /\ ChainInv /\ DamageInv /\ RecordedInv
                  /\ AtMostOneGap /\ AuditInv
<1>1. ReadsInit => Inv
  <2>1. LedgerInit => RecordedInv BY DEF LedgerInit, RecordedInv
  <2>2. ReadsInit => LedgerInit BY DEF ReadsInit
  <2> QED BY <2>1, <2>2, TypeInit, ChainInvInit, DamageInit, GapInit, AuditInit
<1>2. Inv /\ [ReadsNext]_readVars => Inv'
  <2>1. [ReadsNext]_readVars => [LedgerNext]_ledgerVars
    BY DEF ReadsNext, readVars, BeginAudit, ReadPage, Answer, ledgerVars
  <2>2. Inv /\ [LedgerNext]_ledgerVars
          => TypeInv' /\ ChainInv' /\ DamageInv' /\ RecordedInv' /\ AtMostOneGap'
    <3>1. TypeInv /\ [LedgerNext]_ledgerVars => TypeInv' BY TypeStep
    <3> QED BY <3>1, ChainInvStep, DamageStep, RecordedStep, GapStep
  <2> QED BY <2>1, <2>2, AuditStep
<1>3. Inv => AuditCovers BY AuditIsRight
<1> HIDE DEF Inv
<1> QED BY <1>1, <1>2, <1>3, PTL DEF ReadsSpec
=============================================================================
