-------------------------- MODULE EmbeddingProofs --------------------------
(***************************************************************************)
(* Proofs about EmbeddingCache: for any number of processes, models and    *)
(* texts, a search answers with vectors of its own model, and a vector     *)
(* that was saved is not asked for again.                                  *)
(***************************************************************************)
EXTENDS EmbeddingCache, TLAPS, SequenceTheorems, FiniteSetTheorems

Working == {"remembering", "writing"}

\* Under the key of a model and a text a cache has their vector.
Honest(cache) ==
  \A m \in Models, t \in Texts : Key(m, t) \in DOMAIN cache => cache[Key(m, t)] = Vector(m, t)

\* The vectors received belong to the pending places, in order.
Received(p) ==
  /\ Len(vectors[p]) <= Len(pending[p])
  /\ \A j \in 1 .. Len(vectors[p]) : vectors[p][j] = Vector(model[p], texts[p][pending[p][j]])

\* Places without a vector are pending places that are not done.
Open(p) ==
  \A i \in DOMAIN texts[p] :
    results[p][i] = None => \E j \in 1 .. Len(pending[p]) : j > done[p] /\ pending[p][j] = i

SearchInv(p) ==
  /\ DOMAIN results[p] = DOMAIN texts[p]
  /\ \A j \in 1 .. Len(pending[p]) : pending[p][j] \in DOMAIN texts[p]
  /\ \A i \in DOMAIN texts[p] : results[p][i] \in {None, Vector(model[p], texts[p][i])}
  /\ pc[p] \in {"idle", "answered"} => pending[p] = <<>> /\ vectors[p] = <<>> /\ done[p] = 0
  /\ pc[p] = "idle" => texts[p] = <<>>
  /\ Received(p) /\ Open(p)
  /\ pc[p] = "calling" => done[p] = 0 /\ Len(vectors[p]) < Len(pending[p])
  /\ pc[p] \in Working => Len(vectors[p]) = Len(pending[p]) /\ done[p] < Len(vectors[p])

CacheInv ==
  /\ \A p \in Processes : Honest(memory[p])
  /\ file \in Caches => Honest(file)

EmbeddingInv == EmbeddingTypeOK /\ CacheInv /\ \A p \in Processes : SearchInv(p)

\* What is stated of a process depends on its own variables.
LEMMA OwnVariables ==
  ASSUME NEW q, SearchInv(q),
         model'[q] = model[q], pc'[q] = pc[q], texts'[q] = texts[q], results'[q] = results[q],
         pending'[q] = pending[q], vectors'[q] = vectors[q], done'[q] = done[q]
  PROVE  SearchInv(q)'
BY DEF SearchInv, Received, Open, Working

\* A function on the numbers up to n is a sequence of that length.
LEMMA FunctionIsSequence ==
  ASSUME NEW S, NEW n \in Nat, NEW f \in [1 .. n -> S]
  PROVE  f \in Seq(S) /\ Len(f) = n /\ DOMAIN f = 1 .. n
<1>1. f \in Seq(S)
  BY SeqDef
<1>2. Len(f) \in Nat /\ DOMAIN f = 1 .. Len(f)
  BY <1>1, LenProperties
<1> QED
  BY <1>1, <1>2

-----------------------------------------------------------------------------
(* Caches *)

LEMMA EmptyCache == <<>> \in Caches /\ Honest(<<>>)
<1>1. <<>> \in [{} -> Vectors]
  OBVIOUS
<1>2. <<>> \in Caches
  BY <1>1 DEF Caches
<1>3. Honest(<<>>)
  BY DEF Honest
<1> QED
  BY <1>2, <1>3

\* A vector stored under its key keeps a cache a cache, and honest.
LEMMA PutIsHonest ==
  ASSUME NEW cache \in Caches, Honest(cache), NEW m \in Models, NEW t \in Texts
  PROVE  Put(cache, Key(m, t), Vector(m, t)) \in Caches
         /\ Honest(Put(cache, Key(m, t), Vector(m, t)))
<1> DEFINE new == Put(cache, Key(m, t), Vector(m, t))
<1>1. PICK K \in SUBSET (Models \X Texts) : cache \in [K -> Vectors]
  BY DEF Caches
<1>2. new \in [K \cup {Key(m, t)} -> Vectors]
  BY <1>1 DEF Put, Key, Vector, Vectors
<1>3. K \cup {Key(m, t)} \in SUBSET (Models \X Texts)
  BY DEF Key
<1>4. new \in Caches
  BY <1>2, <1>3 DEF Caches
<1>5. Honest(new)
  BY DEF Honest, Put, Key, Vector
<1> QED
  BY <1>4, <1>5

\* What is loaded is a cache.
LEMMA LoadIsHonest ==
  ASSUME EmbeddingTypeOK, CacheInv
  PROVE  \A cache \in Load : cache \in Caches /\ Honest(cache)
BY EmptyCache DEF EmbeddingTypeOK, CacheInv, Load

-----------------------------------------------------------------------------
(* Steps *)

\* A process that returns to idle has a search to start.
LEMMA ForgetKeeps ==
  ASSUME EmbeddingInv, NEW p \in Processes, Forget(p)
  PROVE  /\ pc' \in [Processes -> {"idle", "calling", "remembering", "writing", "answered"}]
         /\ texts' \in [Processes -> Seq(Texts)]
         /\ results' \in [Processes -> Seq(Vectors \cup {None})]
         /\ pending' \in [Processes -> Seq(Nat)]
         /\ vectors' \in [Processes -> Seq(Vectors)]
         /\ attempt' \in [Processes -> 1 .. MaxAttempts]
         /\ done' \in [Processes -> Nat]
         /\ pc'[p] = "idle"
         /\ SearchInv(p)'
         /\ \A q \in Processes \ {p} : model'[q] = model[q] => SearchInv(q)'
<1> USE DEF EmbeddingInv, EmbeddingTypeOK, Forget, Drop, At
<1>1. 1 \in 1 .. MaxAttempts
  BY EmbeddingAssumption
<1>2. /\ pc'[p] = "idle" /\ texts'[p] = <<>> /\ results'[p] = <<>>
      /\ pending'[p] = <<>> /\ vectors'[p] = <<>> /\ done'[p] = 0
  OBVIOUS
<1>3. SearchInv(p)'
  BY <1>2 DEF SearchInv, Received, Open, Working
<1>4. ASSUME NEW q \in Processes \ {p}, model'[q] = model[q]
      PROVE  SearchInv(q)'
  BY <1>4, OwnVariables
<1> QED
  BY <1>1, <1>2, <1>3, <1>4

LEMMA StartKeeps ==
  ASSUME EmbeddingInv, NEW p \in Processes, Start(p)
  PROVE  EmbeddingInv'
<1> USE DEF EmbeddingInv, Start, searchVars
<1>0. PICK cache \in Load : /\ memory' = [memory EXCEPT ![p] = cache]
                          /\ Mishap(cache # file \/ ~ Alone(p))
  OBVIOUS
<1>1. EmbeddingTypeOK'
  <2>1. memory' \in [Processes -> Caches] /\ saved' \subseteq Models \X Texts
    BY <1>0, LoadIsHonest DEF EmbeddingTypeOK, Mishap
  <2>2. model' \in [Processes -> Models \cup {Off}]
    BY DEF EmbeddingTypeOK
  <2>3. \A q \in Processes : ~ Up(q)' => pc'[q] = "idle"
    BY DEF EmbeddingTypeOK, Up
  <2> QED
    BY <2>1, <2>2, <2>3 DEF EmbeddingTypeOK
<1>2. CacheInv'
  BY <1>0, LoadIsHonest DEF EmbeddingTypeOK, CacheInv
<1>3. ASSUME NEW q \in Processes
      PROVE  SearchInv(q)'
  <2>1. CASE q = p
    BY <2>1 DEF EmbeddingTypeOK, SearchInv, Received, Open, Working
  <2>2. CASE q # p
    BY <2>2, OwnVariables DEF EmbeddingTypeOK
  <2> QED
    BY <2>1, <2>2
<1> QED
  BY <1>1, <1>2, <1>3

LEMMA StopKeeps ==
  ASSUME EmbeddingInv, NEW p \in Processes, Stop(p)
  PROVE  EmbeddingInv'
<1> USE DEF EmbeddingInv
<1>0. \A q \in Processes \ {p} : model'[q] = model[q] /\ memory'[q] = memory[q]
  BY DEF Stop, EmbeddingTypeOK
<1>1. EmbeddingTypeOK'
  BY <1>0, ForgetKeeps, EmptyCache DEF EmbeddingTypeOK, Stop, Up, Mishap, Forget, At, Drop
<1>2. CacheInv'
  BY <1>0, EmptyCache DEF EmbeddingTypeOK, CacheInv, Stop
<1>3. \A q \in Processes : SearchInv(q)'
  BY <1>0, ForgetKeeps DEF Stop
<1> QED
  BY <1>1, <1>2, <1>3

\* What was found is a vector of the model; the places of the rest are pending.
LEMMA LookKeeps ==
  ASSUME EmbeddingInv, NEW p \in Processes, Look(p)
  PROVE  /\ EmbeddingInv'
         /\ \A j \in 1 .. Len(pending'[p]) : KeyAt(p, pending[p][j])' \notin DOMAIN memory[p]
<1> USE DEF EmbeddingInv
<1>1. PICK batch \in Batches :
        LET found == [i \in DOMAIN batch |->
                        LET key == Key(model[p], batch[i])
                        IN  IF key \in DOMAIN memory[p] THEN memory[p][key] ELSE None]
            missing == {i \in DOMAIN batch : found[i] = None}
        IN  /\ texts' = [texts EXCEPT ![p] = batch]
            /\ results' = [results EXCEPT ![p] = found]
            /\ \E order \in InOrder(missing) : pending' = [pending EXCEPT ![p] = order]
            /\ pc' = [pc EXCEPT ![p] = IF missing = {} THEN "answered" ELSE "calling"]
  BY DEF Look, At
<1> DEFINE found == [i \in DOMAIN batch |->
                       LET key == Key(model[p], batch[i])
                       IN  IF key \in DOMAIN memory[p] THEN memory[p][key] ELSE None]
           missing == {i \in DOMAIN batch : found[i] = None}
<1>2. PICK order \in InOrder(missing) : pending' = [pending EXCEPT ![p] = order]
  BY <1>1
<1>3. /\ batch \in Seq(Texts) /\ Len(batch) \in Nat /\ DOMAIN batch = 1 .. Len(batch)
      /\ \A i \in DOMAIN batch : batch[i] \in Texts
  BY EmbeddingAssumption
<1>4. missing \subseteq 1 .. Len(batch) /\ IsFiniteSet(missing) /\ Cardinality(missing) \in Nat
  <2>1. missing \subseteq 1 .. Len(batch)
    BY <1>3
  <2> HIDE DEF missing
  <2>2. IsFiniteSet(1 .. Len(batch))
    <3>1. 1 \in Int /\ Len(batch) \in Int
      BY <1>3
    <3> QED
      BY <3>1, FS_Interval
  <2> QED
    BY <2>1, <2>2, FS_Subset, FS_CardinalityType
<1>5. /\ order \in [1 .. Cardinality(missing) -> missing]
      /\ \A i \in missing : \E j \in DOMAIN order : order[j] = i
  BY DEF InOrder
<1>6. order \in Seq(Nat) /\ Len(order) = Cardinality(missing) /\ DOMAIN order = 1 .. Len(order)
  <2> HIDE DEF missing
  <2>1. missing \subseteq Nat
    BY <1>3, <1>4
  <2>2. order \in [1 .. Cardinality(missing) -> Nat]
    BY <1>5, <2>1
  <2> QED
    BY <1>4, <2>2, FunctionIsSequence
<1>7. model[p] \in Models
  BY DEF Look, Up, EmbeddingTypeOK
<1>8. \A i \in DOMAIN batch :
        \/ found[i] = None /\ i \in missing
        \/ found[i] = Vector(model[p], batch[i]) /\ Key(model[p], batch[i]) \in DOMAIN memory[p]
  BY <1>3, <1>7 DEF CacheInv, Honest
<1>9. \A i \in missing : Key(model[p], batch[i]) \notin DOMAIN memory[p]
  <2>1. \A i \in DOMAIN batch : Vector(model[p], batch[i]) # None
    BY <1>3, <1>7, EmbeddingAssumption DEF Vector, Vectors
  <2> QED
    BY <1>3, <1>7, <2>1 DEF CacheInv, Honest
<1>10. found \in Seq(Vectors \cup {None})
  <2>1. \A i \in DOMAIN batch : Vector(model[p], batch[i]) \in Vectors
    BY <1>3, <1>7 DEF Vector, Vectors
  <2>2. found = [i \in 1 .. Len(batch) |-> found[i]]
    BY <1>3
  <2> HIDE DEF found
  <2>3. found \in [1 .. Len(batch) -> Vectors \cup {None}]
    BY <1>3, <1>8, <2>1, <2>2
  <2> QED
    BY <1>3, <2>3, FunctionIsSequence
<1>11. DOMAIN found = DOMAIN batch
  OBVIOUS
<1> HIDE DEF found, missing
<1>12. /\ texts' = [texts EXCEPT ![p] = batch] /\ results' = [results EXCEPT ![p] = found]
       /\ pc' = [pc EXCEPT ![p] = IF missing = {} THEN "answered" ELSE "calling"]
       /\ UNCHANGED <<model, memory, vectors, attempt, done, file, saved>>
       /\ Up(p) /\ pc[p] \in {"idle", "answered"}
  BY <1>1 DEF Look, found, missing
<1>13. EmbeddingTypeOK'
  BY <1>2, <1>3, <1>6, <1>10, <1>12 DEF EmbeddingTypeOK, Up
<1>14. CacheInv'
  BY <1>12 DEF CacheInv
<1>15. /\ texts'[p] = batch /\ results'[p] = found /\ pending'[p] = order
       /\ pc'[p] = (IF missing = {} THEN "answered" ELSE "calling")
       /\ vectors'[p] = <<>> /\ done'[p] = 0 /\ model'[p] = model[p]
  BY <1>2, <1>12 DEF EmbeddingTypeOK, SearchInv
<1>16. missing = {} <=> Len(order) = 0
  BY <1>4, <1>5, <1>6
<1>17. SearchInv(p)'
  <2>1. /\ DOMAIN results'[p] = DOMAIN texts'[p]
        /\ \A j \in 1 .. Len(pending'[p]) : pending'[p][j] \in DOMAIN texts'[p]
        /\ \A i \in DOMAIN texts'[p] :
             results'[p][i] \in {None, Vector(model'[p], texts'[p][i])}
    BY <1>3, <1>4, <1>5, <1>6, <1>8, <1>11, <1>15
  <2>2. Open(p)'
    <3> SUFFICES ASSUME NEW i \in DOMAIN batch, found[i] = None
                 PROVE  \E j \in 1 .. Len(order) : j > 0 /\ order[j] = i
      BY <1>15 DEF Open
    <3>1. i \in missing
      BY DEF missing
    <3> QED
      BY <1>5, <1>6, <3>1
  <2>3. Received(p)'
    BY <1>6, <1>15 DEF Received
  <2>4. missing = {} => order = <<>>
    BY <1>6, <1>16
  <2> QED
    BY <2>1, <2>2, <2>3, <2>4, <1>6, <1>15, <1>16 DEF SearchInv, Working
<1>18. ASSUME NEW q \in Processes \ {p}
       PROVE  SearchInv(q)'
  BY <1>2, <1>12, OwnVariables DEF EmbeddingTypeOK
<1>19. \A j \in 1 .. Len(pending'[p]) : KeyAt(p, pending[p][j])' \notin DOMAIN memory[p]
  BY <1>5, <1>6, <1>9, <1>15 DEF KeyAt
<1> QED
  BY <1>13, <1>14, <1>17, <1>18, <1>19

\* A search that raises leaves nothing behind.
LEMMA ForgottenKeeps ==
  ASSUME EmbeddingInv, NEW p \in Processes, Forget(p),
         UNCHANGED <<model, memory, file, saved>>
  PROVE  EmbeddingInv'
<1> USE DEF EmbeddingInv
<1>1. \A q \in Processes \ {p} : pc'[q] = pc[q]
  BY DEF Forget, At, EmbeddingTypeOK
<1>2. EmbeddingTypeOK'
  BY <1>1, ForgetKeeps DEF EmbeddingTypeOK, Up
<1>3. CacheInv'
  BY DEF CacheInv
<1>4. \A q \in Processes : SearchInv(q)'
  BY ForgetKeeps
<1> QED
  BY <1>2, <1>3, <1>4

LEMMA CallFailsKeeps ==
  ASSUME EmbeddingInv, NEW p \in Processes, CallFails(p)
  PROVE  EmbeddingInv'
<1> USE DEF EmbeddingInv
<1>1. CASE Forget(p)
  BY <1>1, ForgottenKeeps DEF CallFails
<1>2. CASE /\ attempt[p] < MaxAttempts
           /\ attempt' = [attempt EXCEPT ![p] = @ + 1]
           /\ UNCHANGED <<pc, texts, results, pending, vectors, done>>
  <2>1. attempt' \in [Processes -> 1 .. MaxAttempts]
    BY <1>2, EmbeddingAssumption DEF EmbeddingTypeOK
  <2>2. EmbeddingTypeOK' /\ CacheInv'
    BY <1>2, <2>1 DEF CallFails, EmbeddingTypeOK, CacheInv, Up
  <2>3. \A q \in Processes : SearchInv(q)'
    BY <1>2, OwnVariables DEF CallFails
  <2> QED
    BY <2>2, <2>3
<1> QED
  BY <1>1, <1>2 DEF CallFails

\* What the model sends is a beginning of what was asked for.
LEMMA CallModelKeeps ==
  ASSUME EmbeddingInv, NEW p \in Processes, CallModel(p)
  PROVE  EmbeddingInv'
<1> USE DEF EmbeddingInv
<1>0. UNCHANGED <<model, memory, file, saved>> /\ pc[p] = "calling" /\ Up(p)
  BY DEF CallModel, EmbeddingTypeOK
<1>1. CASE Forget(p)
  BY <1>0, <1>1, ForgottenKeeps
<1>2. CASE ~ Forget(p)
  <2> DEFINE computed == Computed(p)
             k == Len(vectors[p]) + 1
  <2>1. /\ pending[p] \in Seq(Nat) /\ DOMAIN pending[p] = 1 .. Len(pending[p])
        /\ Len(pending[p]) \in Nat /\ k \in 1 .. Len(pending[p]) /\ done[p] = 0
    BY <1>0 DEF EmbeddingTypeOK, SearchInv
  <2>2. \A j \in 1 .. Len(pending[p]) :
          computed[j] = Vector(model[p], texts[p][pending[p][j]]) /\ computed[j] \in Vectors
    BY <1>0, <2>1 DEF Computed, SearchInv, Vector, Vectors, EmbeddingTypeOK, Up
  <2>3. computed \in Seq(Vectors) /\ Len(computed) = Len(pending[p])
    <3>1. computed = [j \in 1 .. Len(pending[p]) |-> computed[j]]
      BY <2>1 DEF Computed
    <3> HIDE DEF computed
    <3>2. computed \in [1 .. Len(pending[p]) -> Vectors]
      BY <2>2, <3>1
    <3> QED
      BY <2>1, <3>2, FunctionIsSequence
  <2> HIDE DEF computed
  <2>4. /\ SubSeq(computed, 1, k) \in Seq(Vectors) /\ Len(SubSeq(computed, 1, k)) = k
        /\ \A j \in 1 .. k : SubSeq(computed, 1, k)[j] = computed[j]
    BY <2>1, <2>3, SubSeqProperties
  <2>5. Len(Tail(computed)) = Len(pending[p]) - 1
    BY <2>1, <2>3
  <2>6. PICK received : /\ received \in {computed, SubSeq(computed, 1, k)}
                        /\ \/ /\ received = SubSeq(computed, 1, k)
                              /\ k < Len(pending[p]) /\ pc' = [pc EXCEPT ![p] = "calling"]
                           \/ /\ Len(received) = Len(pending[p])
                              /\ pc' = [pc EXCEPT ![p] = "remembering"]
                        /\ vectors' = [vectors EXCEPT ![p] = received]
                        /\ attempt' = [attempt EXCEPT ![p] = 1]
                        /\ UNCHANGED <<texts, results, pending, done>>
    <3>1. PICK received \in IF model[p] \in Batching THEN {computed, Tail(computed)}
                                                  ELSE {SubSeq(computed, 1, k)} :
            /\ \/ model[p] \notin Batching /\ Len(received) < Len(pending[p])
               \/ Len(received) = Len(pending[p])
            /\ pc' = [pc EXCEPT ![p] =
                        IF model[p] \notin Batching /\ Len(received) < Len(pending[p])
                        THEN "calling" ELSE "remembering"]
            /\ vectors' = [vectors EXCEPT ![p] = received]
            /\ attempt' = [attempt EXCEPT ![p] = 1]
            /\ UNCHANGED <<texts, results, pending, done>>
      BY <1>2 DEF CallModel, Complete, At, computed
    <3>2. model[p] \in Batching => received = computed
      BY <2>1, <2>3, <2>5, <3>1
    <3>3. received = SubSeq(computed, 1, k) => Len(received) = k
      BY <2>4
    <3> QED
      BY <2>1, <3>1, <3>2, <3>3
  <2>7. /\ received \in Seq(Vectors) /\ Len(received) <= Len(pending[p])
        /\ \A j \in 1 .. Len(received) : received[j] = Vector(model[p], texts[p][pending[p][j]])
    <3>1. CASE received = computed
      BY <2>1, <2>2, <2>3, <3>1
    <3>2. CASE received = SubSeq(computed, 1, k)
      BY <2>1, <2>2, <2>4, <3>2
    <3> QED
      BY <2>6, <3>1, <3>2
  <2>8. EmbeddingTypeOK'
    <3>1. 1 \in 1 .. MaxAttempts
      BY EmbeddingAssumption
    <3> QED
      BY <1>0, <2>6, <2>7, <3>1 DEF EmbeddingTypeOK, Up
  <2>9. CacheInv'
    BY <1>0 DEF CacheInv
  <2>10. SearchInv(p)'
    <3>1. /\ vectors'[p] = received /\ pending'[p] = pending[p] /\ texts'[p] = texts[p]
          /\ results'[p] = results[p] /\ done'[p] = 0 /\ model'[p] = model[p]
          /\ \/ pc'[p] = "calling" /\ Len(received) < Len(pending[p])
             \/ pc'[p] = "remembering" /\ Len(received) = Len(pending[p])
      BY <1>0, <2>1, <2>4, <2>6 DEF EmbeddingTypeOK
    <3>2. Received(p)'
      BY <2>7, <3>1 DEF Received
    <3>3. Open(p)'
      BY <2>1, <3>1 DEF Open, SearchInv
    <3> QED
      BY <2>1, <3>1, <3>2, <3>3 DEF SearchInv, Working
  <2>11. \A q \in Processes \ {p} : SearchInv(q)'
    BY <1>0, <2>6, OwnVariables DEF EmbeddingTypeOK
  <2> QED
    BY <2>8, <2>9, <2>10, <2>11
<1> QED
  BY <1>1, <1>2

\* The next vector is the one of the next place.
LEMMA NextPlace ==
  ASSUME EmbeddingInv, NEW p \in Processes, pc[p] \in Working
  PROVE  /\ Up(p) /\ model[p] \in Models
         /\ done[p] + 1 \in 1 .. Len(pending[p]) /\ Len(pending[p]) \in Nat /\ done[p] \in Nat
         /\ Place(p) \in DOMAIN texts[p] /\ texts[p][Place(p)] \in Texts
         /\ vectors[p][done[p] + 1] = Vector(model[p], texts[p][Place(p)])
         /\ vectors[p][done[p] + 1] \in Vectors
<1> USE DEF EmbeddingInv, Working
<1>1. Up(p) /\ model[p] \in Models
  BY DEF EmbeddingTypeOK, Up
<1>2. /\ done[p] \in Nat /\ Len(pending[p]) \in Nat
      /\ Len(vectors[p]) = Len(pending[p]) /\ done[p] < Len(vectors[p])
  BY DEF EmbeddingTypeOK, SearchInv
<1>3. done[p] + 1 \in 1 .. Len(pending[p]) /\ done[p] + 1 \in 1 .. Len(vectors[p])
  BY <1>2
<1>4. Place(p) \in DOMAIN texts[p]
  BY <1>3 DEF Place, SearchInv
<1>5. texts[p][Place(p)] \in Texts
  BY <1>4 DEF EmbeddingTypeOK
<1>6. vectors[p][done[p] + 1] = Vector(model[p], texts[p][Place(p)])
  BY <1>3 DEF Place, SearchInv, Received
<1> QED
  BY <1>1, <1>2, <1>3, <1>4, <1>5, <1>6 DEF Vector, Vectors

LEMMA UseKeeps ==
  ASSUME EmbeddingInv, NEW p \in Processes, pc[p] \in Working, Use(p),
         UNCHANGED <<model, texts>>
  PROVE  /\ pc' \in [Processes -> {"idle", "calling", "remembering", "writing", "answered"}]
         /\ results' \in [Processes -> Seq(Vectors \cup {None})]
         /\ pending' \in [Processes -> Seq(Nat)]
         /\ vectors' \in [Processes -> Seq(Vectors)]
         /\ attempt' \in [Processes -> 1 .. MaxAttempts]
         /\ done' \in [Processes -> Nat]
         /\ \A q \in Processes \ {p} : pc'[q] = pc[q]
         /\ pc'[p] \in {"remembering", "answered"}
         /\ \A q \in Processes : SearchInv(q)'
<1> USE DEF EmbeddingInv
<1> DEFINE v == vectors[p][done[p] + 1]
           new == [results[p] EXCEPT ![Place(p)] = v]
<1>1. /\ Up(p) /\ model[p] \in Models
      /\ done[p] + 1 \in 1 .. Len(pending[p]) /\ Len(pending[p]) \in Nat /\ done[p] \in Nat
      /\ Place(p) \in DOMAIN texts[p] /\ texts[p][Place(p)] \in Texts
      /\ v = Vector(model[p], texts[p][Place(p)]) /\ v \in Vectors /\ v # None
  BY NextPlace, EmbeddingAssumption
<1>2. results' = [results EXCEPT ![p] = new]
  BY DEF Use, EmbeddingTypeOK
<1>3. /\ new \in Seq(Vectors \cup {None})
      /\ DOMAIN new = DOMAIN texts[p] /\ new[Place(p)] = v
      /\ \A i \in DOMAIN texts[p] : i # Place(p) => new[i] = results[p][i]
  <2>1. results[p] \in Seq(Vectors \cup {None}) /\ DOMAIN results[p] = DOMAIN texts[p]
    BY DEF EmbeddingTypeOK, SearchInv
  <2>2. Place(p) \in 1 .. Len(results[p])
    BY <1>1, <2>1
  <2>3. new \in Seq(Vectors \cup {None})
    BY <1>1, <2>1, <2>2, ExceptSeq
  <2> QED
    BY <1>1, <2>1, <2>3
<1> HIDE DEF new, v
<1>4. 1 \in 1 .. MaxAttempts
  BY EmbeddingAssumption
<1>5. Len(vectors[p]) = Len(pending[p])
  BY DEF SearchInv
<1>6. \A q \in Processes \ {p} : SearchInv(q)' /\ pc'[q] = pc[q]
  <2> SUFFICES ASSUME NEW q \in Processes \ {p}
               PROVE  SearchInv(q)' /\ pc'[q] = pc[q]
    OBVIOUS
  <2>1. pc'[q] = pc[q] /\ results'[q] = results[q]
    BY <1>2 DEF Use, At, EmbeddingTypeOK
  <2>2. pending'[q] = pending[q] /\ vectors'[q] = vectors[q] /\ done'[q] = done[q]
    BY DEF Use, Drop, EmbeddingTypeOK
  <2> QED
    BY <2>1, <2>2, OwnVariables
<1>7. CASE /\ done[p] + 1 < Len(vectors[p])
           /\ done' = [done EXCEPT ![p] = @ + 1]
           /\ pc' = [pc EXCEPT ![p] = "remembering"]
           /\ UNCHANGED <<pending, vectors, attempt>>
  <2>1. /\ results'[p] = new /\ done'[p] = done[p] + 1 /\ pc'[p] = "remembering"
        /\ pending'[p] = pending[p] /\ vectors'[p] = vectors[p]
        /\ texts'[p] = texts[p] /\ model'[p] = model[p]
    BY <1>2, <1>7 DEF EmbeddingTypeOK
  <2>2. Open(p)'
    <3> SUFFICES ASSUME NEW i \in DOMAIN texts[p], new[i] = None
                 PROVE  \E j \in 1 .. Len(pending[p]) : j > done[p] + 1 /\ pending[p][j] = i
      BY <2>1 DEF Open
    <3>1. i # Place(p) /\ results[p][i] = None
      BY <1>1, <1>3
    <3>2. PICK j \in 1 .. Len(pending[p]) : j > done[p] /\ pending[p][j] = i
      BY <3>1 DEF SearchInv, Open
    <3>3. j # done[p] + 1
      BY <3>1, <3>2 DEF Place
    <3> QED
      BY <1>1, <3>2, <3>3
  <2>3. Received(p)'
    BY <2>1 DEF Received, SearchInv
  <2>4. SearchInv(p)'
    BY <1>1, <1>3, <1>5, <1>7, <2>1, <2>2, <2>3 DEF SearchInv, Working
  <2>5. results' \in [Processes -> Seq(Vectors \cup {None})]
    BY <1>2, <1>3 DEF EmbeddingTypeOK
  <2>6. done' \in [Processes -> Nat]
    BY <1>1, <1>7 DEF EmbeddingTypeOK
  <2> QED
    BY <1>6, <1>7, <2>1, <2>4, <2>5, <2>6 DEF EmbeddingTypeOK
<1>8. CASE /\ done[p] + 1 = Len(vectors[p])
           /\ Drop(p)
           /\ pc' = [pc EXCEPT ![p] = "answered"]
  <2>1. /\ results'[p] = new /\ done'[p] = 0 /\ pc'[p] = "answered"
        /\ pending'[p] = <<>> /\ vectors'[p] = <<>>
        /\ texts'[p] = texts[p] /\ model'[p] = model[p]
    BY <1>2, <1>8 DEF EmbeddingTypeOK, Drop
  <2>2. \A i \in DOMAIN texts[p] : new[i] # None
    <3> SUFFICES ASSUME NEW i \in DOMAIN texts[p], new[i] = None
                 PROVE  FALSE
      OBVIOUS
    <3>1. i # Place(p) /\ results[p][i] = None
      BY <1>1, <1>3
    <3>2. PICK j \in 1 .. Len(pending[p]) : j > done[p] /\ pending[p][j] = i
      BY <3>1 DEF SearchInv, Open
    <3>3. j = done[p] + 1
      BY <1>1, <1>5, <1>8, <3>2
    <3> QED
      BY <3>1, <3>2, <3>3 DEF Place
  <2>3. Open(p)' /\ Received(p)'
    BY <2>1, <2>2 DEF Open, Received
  <2>4. SearchInv(p)'
    BY <1>1, <1>3, <2>1, <2>3 DEF SearchInv, Working
  <2> QED
    BY <1>2, <1>3, <1>4, <1>6, <1>8, <2>1, <2>4 DEF EmbeddingTypeOK, Drop
<1> QED
  BY <1>7, <1>8 DEF Use, At

LEMMA RememberKeeps ==
  ASSUME EmbeddingInv, NEW p \in Processes, Remember(p)
  PROVE  EmbeddingInv'
<1> USE DEF EmbeddingInv
<1>1. pc[p] \in Working /\ pc[p] = "remembering"
  BY DEF Remember, Working
<1> DEFINE new == Put(memory[p], Key(model[p], texts[p][Place(p)]),
                      Vector(model[p], texts[p][Place(p)]))
<1>2. memory' = [memory EXCEPT ![p] = new] /\ UNCHANGED <<model, texts, saved>>
  BY <1>1, NextPlace DEF Remember, KeyAt
<1>3. new \in Caches /\ Honest(new)
  BY <1>1, NextPlace, PutIsHonest DEF EmbeddingTypeOK, CacheInv
<1> HIDE DEF new
<1>4. memory' \in [Processes -> Caches] /\ Up(p) /\ file' \in {file, Truncated}
  BY <1>1, <1>2, <1>3, NextPlace DEF EmbeddingTypeOK, Remember
<1>5. CacheInv'
  BY <1>2, <1>3, <1>4, EmbeddingAssumption DEF CacheInv, EmbeddingTypeOK
<1>6. CASE Use(p)
  BY <1>1, <1>2, <1>4, <1>5, <1>6, UseKeeps DEF EmbeddingTypeOK, Up
<1>7. CASE /\ pc' = [pc EXCEPT ![p] = "writing"]
           /\ UNCHANGED <<results, pending, vectors, attempt, done>>
  <2>1. EmbeddingTypeOK'
    BY <1>2, <1>4, <1>7 DEF EmbeddingTypeOK, Up
  <2>2. SearchInv(p)'
    BY <1>1, <1>2, <1>7 DEF EmbeddingTypeOK, SearchInv, Received, Open, Working
  <2>3. \A q \in Processes \ {p} : SearchInv(q)'
    BY <1>2, <1>7, OwnVariables DEF EmbeddingTypeOK
  <2> QED
    BY <1>5, <2>1, <2>2, <2>3
<1> QED
  BY <1>6, <1>7 DEF Remember, At

\* What is written is the memory of a process, or not JSON.
LEMMA WriteFileKeeps ==
  ASSUME EmbeddingInv, NEW p \in Processes, WriteFile(p)
  PROVE  EmbeddingInv'
<1> USE DEF EmbeddingInv
<1>1. pc[p] \in Working /\ Use(p) /\ UNCHANGED <<model, memory, texts>> /\ Up(p)
  BY DEF WriteFile, Working, EmbeddingTypeOK
<1>2. file' \in Caches \cup {Unreadable, Truncated} /\ CacheInv'
  BY <1>1, EmbeddingAssumption DEF WriteFile, EmbeddingTypeOK, CacheInv
<1>3. saved' \subseteq Models \X Texts
  <2>1. DOMAIN memory[p] \subseteq Models \X Texts
    BY DEF EmbeddingTypeOK, Caches
  <2> QED
    BY <2>1 DEF WriteFile, Saved, Mishap, EmbeddingTypeOK
<1>4. EmbeddingTypeOK'
  BY <1>1, <1>2, <1>3, UseKeeps DEF EmbeddingTypeOK, Up
<1> QED
  BY <1>1, <1>2, <1>4, UseKeeps

LEMMA SaveFailsKeeps ==
  ASSUME EmbeddingInv, NEW p \in Processes, SaveFails(p)
  PROVE  EmbeddingInv'
<1> USE DEF EmbeddingInv
<1>1. pc[p] \in Working /\ Use(p) /\ UNCHANGED <<model, memory, texts>> /\ Up(p)
  BY DEF SaveFails, Working, EmbeddingTypeOK
<1>2. file' \in Caches \cup {Unreadable, Truncated} /\ CacheInv'
  BY <1>1, EmbeddingAssumption DEF SaveFails, EmbeddingTypeOK, CacheInv
<1>3. EmbeddingTypeOK'
  BY <1>1, <1>2, UseKeeps DEF EmbeddingTypeOK, Up, SaveFails, Mishap
<1> QED
  BY <1>1, <1>2, <1>3, UseKeeps

LEMMA EmbeddingStep ==
  ASSUME EmbeddingInv, [EmbeddingNext]_embeddingVars
  PROVE  EmbeddingInv'
<1>1. CASE UNCHANGED embeddingVars
  BY <1>1 DEF embeddingVars, searchVars, EmbeddingInv, EmbeddingTypeOK, CacheInv, SearchInv, Up,
              Received, Open, Working
<1>2. CASE EmbeddingNext
  BY <1>2, StartKeeps, StopKeeps, LookKeeps, CallModelKeeps, CallFailsKeeps, RememberKeeps,
     WriteFileKeeps, SaveFailsKeeps DEF EmbeddingNext, SearchStep
<1> QED
  BY <1>1, <1>2

LEMMA EmbeddingStart == EmbeddingInit => EmbeddingInv
<1> SUFFICES ASSUME EmbeddingInit
             PROVE  EmbeddingInv
  OBVIOUS
<1>1. EmbeddingTypeOK
  <2>1. 1 \in 1 .. MaxAttempts
    BY EmbeddingAssumption
  <2>2. memory \in [Processes -> Caches] /\ file \in Caches \cup {Unreadable, Truncated}
    BY EmptyCache DEF EmbeddingInit
  <2>3. /\ texts \in [Processes -> Seq(Texts)] /\ pending \in [Processes -> Seq(Nat)]
        /\ results \in [Processes -> Seq(Vectors \cup {None})]
        /\ vectors \in [Processes -> Seq(Vectors)]
    BY DEF EmbeddingInit
  <2> QED
    BY <2>1, <2>2, <2>3 DEF EmbeddingInit, EmbeddingTypeOK, Up
<1>2. CacheInv
  BY EmptyCache DEF EmbeddingInit, CacheInv
<1>3. \A p \in Processes : SearchInv(p)
  BY DEF EmbeddingInit, SearchInv, Received, Open, Working
<1> QED
  BY <1>1, <1>2, <1>3 DEF EmbeddingInv

\* The types of caches and searches, for any number of processes
\* (embedding_service.py 32-115).
THEOREM EmbeddingTypes == EmbeddingSpec => []EmbeddingTypeOK
<1>1. EmbeddingInv => EmbeddingTypeOK
  BY DEF EmbeddingInv
<1> QED
  BY <1>1, EmbeddingStart, EmbeddingStep, PTL DEF EmbeddingSpec

\* Whatever the cache file has been through, a search answers with the vectors
\* its own model gives to its own texts (embedding_service.py 86-115).
THEOREM SearchesUseOwnVectors == EmbeddingSpec => []OwnVectors
<1>1. EmbeddingInv => OwnVectors
  <2> SUFFICES ASSUME EmbeddingInv, NEW p \in Processes, pc[p] = "answered",
                      NEW i \in DOMAIN texts[p]
               PROVE  results[p][i] = Vector(model[p], texts[p][i])
    BY DEF OwnVectors
  <2>1. SearchInv(p) /\ Len(pending[p]) = 0
    BY DEF EmbeddingInv, SearchInv
  <2>2. results[p][i] # None
    BY <2>1 DEF SearchInv, Open
  <2> QED
    BY <2>1, <2>2 DEF SearchInv
<1> QED
  BY <1>1, EmbeddingStart, EmbeddingStep, PTL DEF EmbeddingSpec

-----------------------------------------------------------------------------
(* What was saved is not asked for again *)

\* While something is known to be saved: one process, whose memory has what was
\* saved, and a file that has it too unless this process is writing it.
Kept ==
  /\ \A p, q \in Processes : Up(p) /\ Up(q) => p = q
  /\ \A p \in Processes : Up(p) => saved \subseteq DOMAIN memory[p]
  /\ \/ file \in Caches /\ saved \subseteq DOMAIN file /\ \A p \in Processes : pc[p] # "writing"
     \/ file = Truncated /\ \E p \in Processes : pc[p] = "writing"

\* What the model is asked for is not in the memory of the process.
AsksForMissing ==
  \A p \in Processes : pc[p] = "calling" =>
    \A j \in 1 .. Len(pending[p]) : KeyAt(p, pending[p][j]) \notin DOMAIN memory[p]

SavedInv == AsksForMissing /\ (saved # {} => Kept)

LEMMA AskingSteps ==
  ASSUME EmbeddingInv, AsksForMissing, NEW p \in Processes,
         Start(p) \/ Stop(p) \/ Look(p) \/ SearchStep(p)
  PROVE  AsksForMissing'
<1> USE DEF EmbeddingInv
<1> SUFFICES ASSUME NEW q \in Processes, pc'[q] = "calling"
             PROVE  \A j \in 1 .. Len(pending'[q]) : KeyAt(q, pending[q][j])' \notin DOMAIN memory'[q]
  BY DEF AsksForMissing
<1>1. CASE q # p
  <2> DEFINE same == /\ pc'[q] = pc[q] /\ pending'[q] = pending[q] /\ memory'[q] = memory[q]
                     /\ model'[q] = model[q] /\ texts'[q] = texts[q]
  <2>1. same
    <3> USE <1>1 DEF EmbeddingTypeOK
    <3>1. CASE Start(p) \/ Stop(p) \/ Look(p)
      BY <3>1 DEF Start, Stop, Look, Forget, Drop, At, searchVars
    <3>2. CASE CallModel(p) \/ CallFails(p)
      BY <3>2 DEF CallModel, CallFails, Forget, Drop, At
    <3>3. CASE Remember(p) \/ WriteFile(p) \/ SaveFails(p)
      BY <3>3 DEF Remember, WriteFile, SaveFails, Use, Drop, At
    <3> QED
      BY <3>1, <3>2, <3>3 DEF SearchStep
  <2> QED
    BY <2>1 DEF AsksForMissing, KeyAt
<1>2. CASE q = p
  <2>1. CASE Look(p)
    BY <1>2, <2>1, LookKeeps DEF Look
  <2>2. CASE ~ Look(p)
    <3>1. pc[p] = "calling" /\ UNCHANGED <<memory, model, texts, pending>>
      <4> USE <1>2 DEF EmbeddingTypeOK
      <4>1. ~ Start(p) /\ ~ Stop(p)
        BY DEF Start, Stop, Forget, At, searchVars
      <4>2. CASE CallModel(p) \/ CallFails(p)
        BY <4>2 DEF CallModel, CallFails, Forget, At
      <4>3. ~ Remember(p) /\ ~ WriteFile(p) /\ ~ SaveFails(p)
        BY DEF Remember, WriteFile, SaveFails, Use, At
      <4> QED
        BY <2>2, <4>1, <4>2, <4>3 DEF SearchStep
    <3> QED
      BY <1>2, <3>1 DEF AsksForMissing, KeyAt
  <2> QED
    BY <2>1, <2>2
<1> QED
  BY <1>1, <1>2

\* A process whose search stands at the file is up.
LEMMA WritersAreUp ==
  ASSUME EmbeddingTypeOK, NEW p \in Processes, pc[p] # "idle"
  PROVE  Up(p)
BY DEF EmbeddingTypeOK

LEMMA KeptSteps ==
  ASSUME EmbeddingInv, saved # {} => Kept, NEW p \in Processes,
         Start(p) \/ Stop(p) \/ Look(p) \/ SearchStep(p), saved' # {}
  PROVE  Kept'
<1> USE DEF EmbeddingInv
<1>1. CASE Start(p)
  <2>1. PICK cache \in Load : /\ memory' = [memory EXCEPT ![p] = cache]
                            /\ Mishap(cache # file \/ ~ Alone(p))
    BY <1>1 DEF Start
  <2>2. cache = file /\ Alone(p) /\ saved' = saved /\ saved # {}
    BY <2>1 DEF Mishap
  <2>3. Kept /\ \A q \in Processes : ~ Up(q)
    BY <1>1, <2>2 DEF Start, Alone
  <2>4. \A q \in Processes : pc[q] # "writing"
    BY <2>3, WritersAreUp
  <2>5. file \in Caches /\ saved \subseteq DOMAIN file
    BY <2>3, <2>4 DEF Kept
  <2>6. memory'[p] = file /\ UNCHANGED <<pc, file>>
        /\ \A q \in Processes \ {p} : model'[q] = model[q]
    BY <1>1, <2>1, <2>2 DEF Start, EmbeddingTypeOK, searchVars
  <2> QED
    BY <2>2, <2>3, <2>4, <2>5, <2>6 DEF Kept, Up
<1>2. CASE Stop(p)
  <2>1. pc[p] # "writing" /\ saved' = saved /\ Kept
    BY <1>2 DEF Stop, Mishap
  <2>2. /\ model'[p] = Off /\ pc'[p] = "idle" /\ UNCHANGED file
        /\ \A q \in Processes \ {p} : model'[q] = model[q] /\ memory'[q] = memory[q] /\ pc'[q] = pc[q]
    BY <1>2 DEF Stop, Forget, At, EmbeddingTypeOK
  <2> QED
    BY <2>1, <2>2 DEF Kept, Up
<1>3. CASE Look(p) \/ CallModel(p) \/ CallFails(p)
  <2>1. /\ UNCHANGED <<model, memory, file, saved>>
        /\ \A q \in Processes : pc[q] = "writing" <=> pc'[q] = "writing"
    BY <1>3 DEF Look, CallModel, CallFails, Forget, At, EmbeddingTypeOK
  <2> QED
    BY <2>1 DEF Kept, Up
<1>4. CASE Remember(p)
  <2>1. /\ UNCHANGED <<model, saved>> /\ pc[p] = "remembering"
        /\ \A q \in Processes : DOMAIN memory[q] \subseteq DOMAIN memory'[q]
        /\ \A q \in Processes \ {p} : pc'[q] = pc[q]
        /\ \/ file' = Truncated /\ pc'[p] = "writing"
           \/ UNCHANGED file /\ pc'[p] # "writing"
    BY <1>4 DEF Remember, Use, At, Put, EmbeddingTypeOK
  <2>2. Kept /\ Up(p)
    BY <2>1, WritersAreUp
  <2>3. \A q \in Processes : pc[q] # "writing"
    BY <2>1, <2>2, WritersAreUp DEF Kept
  <2> QED
    BY <2>1, <2>2, <2>3 DEF Kept, Up
<1>5. CASE WriteFile(p)
  <2>1. /\ pc[p] = "writing" /\ pc[p] \in Working /\ Up(p) /\ Use(p)
        /\ UNCHANGED <<model, memory, texts>>
    BY <1>5, WritersAreUp DEF WriteFile, Working
  <2>2. file' = memory[p] /\ Alone(p) /\ saved' = saved \cup DOMAIN memory[p]
    BY <1>5 DEF WriteFile, Saved, Mishap
  <2>3. \A q \in Processes : pc'[q] # "writing"
    <3>1. \A q \in Processes \ {p} : pc'[q] = pc[q] /\ ~ Up(q)
      BY <2>1, <2>2, UseKeeps DEF Alone
    <3>2. pc'[p] # "writing"
      BY <2>1, UseKeeps
    <3> QED
      BY <3>1, <3>2, WritersAreUp
  <2>4. memory[p] \in Caches /\ saved \subseteq DOMAIN memory[p]
    BY <2>1 DEF Kept, EmbeddingTypeOK
  <2>5. \A q \in Processes : Up(q)' => q = p
    BY <2>1, <2>2 DEF Alone, Up
  <2> QED
    BY <2>1, <2>2, <2>3, <2>4, <2>5 DEF Kept
<1>6. CASE SaveFails(p)
  BY <1>6 DEF SaveFails, Mishap
<1> QED
  BY <1>1, <1>2, <1>3, <1>4, <1>5, <1>6 DEF SearchStep

\* Restarts do not pay again for what was saved, for any number of processes,
\* models and texts, as long as since then no process shared the file, failed
\* to read it when it started, or failed in the middle of a save; and after any
\* of these the next save renews the promise (embedding_service.py 47-65).
THEOREM SavedIsNotPaidAgain == EmbeddingSpec => []NeverPaidTwice
<1>1. EmbeddingInit => EmbeddingInv /\ SavedInv
  BY EmbeddingStart DEF EmbeddingInit, SavedInv, AsksForMissing
<1>2. EmbeddingInv /\ SavedInv /\ [EmbeddingNext]_embeddingVars => EmbeddingInv' /\ SavedInv'
  <2> SUFFICES ASSUME EmbeddingInv, SavedInv, [EmbeddingNext]_embeddingVars
               PROVE  SavedInv'
    BY EmbeddingStep
  <2>1. CASE UNCHANGED embeddingVars
    BY <2>1 DEF embeddingVars, searchVars, SavedInv, AsksForMissing, Kept, Up, KeyAt
  <2>2. CASE EmbeddingNext
    BY <2>2, AskingSteps, KeptSteps DEF EmbeddingNext, SavedInv
  <2> QED
    BY <2>1, <2>2
<1>3. EmbeddingInv /\ SavedInv => NeverPaidTwice
  <2> SUFFICES ASSUME EmbeddingInv, SavedInv,
                      NEW p \in Processes, pc[p] = "calling", NEW j \in DOMAIN pending[p]
               PROVE  KeyAt(p, pending[p][j]) \notin saved
    BY DEF NeverPaidTwice
  <2>1. Up(p)
    BY WritersAreUp DEF EmbeddingInv
  <2>2. j \in 1 .. Len(pending[p])
    BY DEF EmbeddingInv, EmbeddingTypeOK
  <2> QED
    BY <2>1, <2>2 DEF SavedInv, AsksForMissing, Kept
<1> QED
  BY <1>1, <1>2, <1>3, PTL DEF EmbeddingSpec
=============================================================================
