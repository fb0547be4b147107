--------------------------- MODULE EmbeddingCache ---------------------------
(***************************************************************************)
(* The vectors of the semantic search (app/services/embedding_service.py): *)
(* embed_documents() over a cache that each process keeps in memory and    *)
(* saves, whole, to one JSON file after every vector, and the calls to the *)
(* model behind it (bedrock_service.py).  The merchant and the stdio MCP   *)
(* server use the same file.  In a process one search runs at a time: both *)
(* reach it from a coroutine that does not await.                          *)
(*                                                                         *)
(* A vector is named by the model and the text it was computed from.       *)
(***************************************************************************)
EXTENDS Naturals, Sequences, FiniteSets

CONSTANTS Processes,   \* processes that share the cache file
          Texts,       \* product texts and queries
          Batches,     \* lists of texts a search may ask for
          Models,      \* embedding models a process may be configured with
          Batching,    \* models that embed a whole list in one call (Cohere)
          MaxAttempts, \* _max_retries, attempts per call to the model
          Off, None, Unreadable, Truncated

Vectors == Models \X Texts

\* What a cache may hold: a vector under each of some hashed keys.
Caches == UNION {[K -> Vectors] : K \in SUBSET (Models \X Texts)}

ASSUME EmbeddingAssumption ==
  /\ Batches \subseteq Seq(Texts)
  /\ Batching \subseteq Models
  /\ MaxAttempts \in Nat \ {0}
  /\ Off \notin Models
  /\ None \notin Vectors
  /\ Unreadable \notin Caches /\ Truncated \notin Caches

VARIABLES model,     \* the model each process runs with, Off when it is down
          memory,    \* its cache: key -> vector
          pc,        \* where its search stands
          texts,     \* the list it was asked for
          results,   \* a vector or None for each text of the list
          pending,   \* the places without a vector, in order
          vectors,   \* what the model has returned for them, in order
          attempt,   \* attempts made at the call to the model
          done,      \* vectors remembered since
          file,      \* the cache file: a cache, cut to nothing, or not JSON
          saved      \* history: keys saved in full since the last mishap

searchVars == <<pc, texts, results, pending, vectors, attempt, done>>
embeddingVars == <<model, memory, searchVars, file, saved>>

\* Mutant of Key: the text alone.
KeyOfText(m, t) == t

\* The hash of the model's id and the text.
Key(m, t) == <<m, t>>

KeyAt(p, i) == Key(model[p], texts[p][i])

\* What the model computes.
Vector(m, t) == <<m, t>>

Up(p) == model[p] # Off

Put(cache, key, vector) ==
  [k \in DOMAIN cache \cup {key} |-> IF k = key THEN vector ELSE cache[k]]

\* The members of a set of places in order.
InOrder(S) ==
  {s \in [1 .. Cardinality(S) -> S] :
     /\ \A i \in S : \E j \in DOMAIN s : s[j] = i
     /\ \A i, j \in DOMAIN s : i < j => s[i] < s[j]}

At(p, s) == pc' = [pc EXCEPT ![p] = s]

\* The locals of embed_documents() go when it returns, raises or dies.
Drop(p) ==
  /\ pending' = [pending EXCEPT ![p] = <<>>]
  /\ vectors' = [vectors EXCEPT ![p] = <<>>]
  /\ attempt' = [attempt EXCEPT ![p] = 1]
  /\ done' = [done EXCEPT ![p] = 0]

Forget(p) ==
  /\ At(p, "idle")
  /\ texts' = [texts EXCEPT ![p] = <<>>]
  /\ results' = [results EXCEPT ![p] = <<>>]
  /\ Drop(p)

Alone(p) == \A q \in Processes \ {p} : ~ Up(q)

\* Of what the process saves in full, while no other one uses the file.
Saved(p) == saved' = IF Alone(p) THEN saved \cup DOMAIN memory[p] ELSE {}

\* After a mishap nothing is known of the file until it is saved again.
Mishap(cause) == saved' = IF cause THEN {} ELSE saved

-----------------------------------------------------------------------------
(* Processes *)

\* Mutant of Load: what the file holds is not parsed before it is used.
LoadAnything == {file}

\* What JsonFileEmbeddingCache() may start with: the file, or nothing, when it
\* is not JSON or when reading it fails (OSError), however intact it is.
Load == {<<>>} \cup ({file} \ {Unreadable, Truncated})

Start(p) ==
  /\ ~ Up(p)
  /\ \E m \in Models : model' = [model EXCEPT ![p] = m]
  /\ \E cache \in Load :
       /\ memory' = [memory EXCEPT ![p] = cache]
       /\ Mishap(cache # file \/ ~ Alone(p))
  /\ UNCHANGED <<searchVars, file>>

\* A process may end anywhere, between the truncation of the file and the
\* write as well.
Stop(p) ==
  /\ Up(p)
  /\ model' = [model EXCEPT ![p] = Off]
  /\ memory' = [memory EXCEPT ![p] = <<>>]
  /\ Forget(p)
  /\ Mishap(pc[p] = "writing")
  /\ UNCHANGED file

-----------------------------------------------------------------------------
(* embed_documents() *)

\* Each text is looked up; the model is asked for those without a vector.
Look(p) ==
  /\ Up(p) /\ pc[p] \in {"idle", "answered"}
  /\ \E batch \in Batches :
       LET found == [i \in DOMAIN batch |->
                       LET key == Key(model[p], batch[i])
                       IN  IF key \in DOMAIN memory[p] THEN memory[p][key] ELSE None]
           missing == {i \in DOMAIN batch : found[i] = None}
       IN  /\ texts' = [texts EXCEPT ![p] = batch]
           /\ results' = [results EXCEPT ![p] = found]
           /\ \E order \in InOrder(missing) : pending' = [pending EXCEPT ![p] = order]
           /\ At(p, IF missing = {} THEN "answered" ELSE "calling")
  /\ UNCHANGED <<model, memory, vectors, attempt, done, file, saved>>

\* The vector of every pending place, as the model computes them.
Computed(p) == [j \in DOMAIN pending[p] |-> Vector(model[p], texts[p][pending[p][j]])]

Complete(p, received) == Len(received) = Len(pending[p])

\* A call to the model answers: Titan with the vector of the next text, Cohere
\* with all of them or one short.
CallModel(p) ==
  /\ pc[p] = "calling"
  /\ \E received \in IF model[p] \in Batching
                     THEN {Computed(p), Tail(Computed(p))}
                     ELSE {SubSeq(Computed(p), 1, Len(vectors[p]) + 1)} :
       LET more == model[p] \notin Batching /\ Len(received) < Len(pending[p])
       IN  \/ /\ more \/ Complete(p, received)
             /\ vectors' = [vectors EXCEPT ![p] = received]
             /\ attempt' = [attempt EXCEPT ![p] = 1]
             /\ At(p, IF more THEN "calling" ELSE "remembering")
             /\ UNCHANGED <<texts, results, pending, done>>
          \/ /\ ~ more /\ ~ Complete(p, received)
             /\ Forget(p)
  /\ UNCHANGED <<model, memory, file, saved>>

\* Mutant of CallFails: the count of the attempts starts over.
CallFailsForever(p) ==
  /\ pc[p] = "calling"
  /\ \/ /\ attempt' = [attempt EXCEPT ![p] = (@ % MaxAttempts) + 1]
        /\ UNCHANGED <<pc, texts, results, pending, vectors, done>>
     \/ Forget(p)
  /\ UNCHANGED <<model, memory, file, saved>>

\* _call(): a transient error is tried again while attempts are left; then,
\* and after any other error, what was computed so far is lost.
CallFails(p) ==
  /\ pc[p] = "calling"
  /\ \/ /\ attempt[p] < MaxAttempts
        /\ attempt' = [attempt EXCEPT ![p] = @ + 1]
        /\ UNCHANGED <<pc, texts, results, pending, vectors, done>>
     \/ Forget(p)
  /\ UNCHANGED <<model, memory, file, saved>>

\* The place the next vector is for.
Place(p) == pending[p][done[p] + 1]

\* The vector is used, whatever became of the file.
Use(p) ==
  /\ results' = [results EXCEPT ![p][Place(p)] = vectors[p][done[p] + 1]]
  /\ \/ /\ done[p] + 1 < Len(vectors[p])
        /\ done' = [done EXCEPT ![p] = @ + 1]
        /\ At(p, "remembering")
        /\ UNCHANGED <<pending, vectors, attempt>>
     \/ /\ done[p] + 1 = Len(vectors[p])
        /\ Drop(p)
        /\ At(p, "answered")

\* set(): the vector goes to memory, and the file is opened for writing and
\* thereby emptied; where it cannot be opened it stays as it is, with a warning.
Remember(p) ==
  /\ pc[p] = "remembering"
  /\ memory' = [memory EXCEPT ![p] = Put(@, KeyAt(p, Place(p)), vectors[p][done[p] + 1])]
  /\ \/ /\ file' = Truncated
        /\ At(p, "writing")
        /\ UNCHANGED <<results, pending, vectors, attempt, done>>
     \/ UNCHANGED file /\ Use(p)
  /\ UNCHANGED <<model, texts, saved>>

\* Mutant of WriteFile: only the new vector is written.
WriteVector(p) ==
  /\ pc[p] = "writing"
  /\ file' = Put(<<>>, KeyAt(p, Place(p)), vectors[p][done[p] + 1])
  /\ Saved(p)
  /\ Use(p)
  /\ UNCHANGED <<model, memory, texts>>

\* The whole cache is written from the start of the file.  Over what another
\* process wrote in the meantime it may leave a tail behind.
WriteFile(p) ==
  /\ pc[p] = "writing"
  /\ \/ file' = memory[p] /\ Saved(p)
     \/ file # Truncated /\ file' = Unreadable /\ Mishap(TRUE)
  /\ Use(p)
  /\ UNCHANGED <<model, memory, texts>>

\* The disk is full half way: a warning.
SaveFails(p) ==
  /\ pc[p] = "writing"
  /\ file' \in {file, Unreadable}
  /\ Mishap(TRUE)
  /\ Use(p)
  /\ UNCHANGED <<model, memory, texts>>

SearchStep(p) ==
  CallModel(p) \/ CallFails(p) \/ Remember(p) \/ WriteFile(p) \/ SaveFails(p)

-----------------------------------------------------------------------------

EmbeddingInit ==
  /\ model = [p \in Processes |-> Off]
  /\ memory = [p \in Processes |-> <<>>]
  /\ pc = [p \in Processes |-> "idle"]
  /\ texts = [p \in Processes |-> <<>>]
  /\ results = [p \in Processes |-> <<>>]
  /\ pending = [p \in Processes |-> <<>>]
  /\ vectors = [p \in Processes |-> <<>>]
  /\ attempt = [p \in Processes |-> 1]
  /\ done = [p \in Processes |-> 0]
  /\ file = <<>>
  /\ saved = {}

EmbeddingNext == \E p \in Processes : Start(p) \/ Stop(p) \/ Look(p) \/ SearchStep(p)

EmbeddingSpec == EmbeddingInit /\ [][EmbeddingNext]_embeddingVars

\* A search that was begun runs on.
LiveEmbeddingSpec == EmbeddingSpec /\ \A p \in Processes : WF_embeddingVars(SearchStep(p))

-----------------------------------------------------------------------------
(* Properties *)

\* Caches map keys to vectors, searches ask for places of a list, and a process
\* that is down is in none (embedding_service.py 32-115).
EmbeddingTypeOK ==
  /\ model \in [Processes -> Models \cup {Off}]
  /\ memory \in [Processes -> Caches]
  /\ file \in Caches \cup {Unreadable, Truncated}
  /\ pc \in [Processes -> {"idle", "calling", "remembering", "writing", "answered"}]
  /\ texts \in [Processes -> Seq(Texts)]
  /\ results \in [Processes -> Seq(Vectors \cup {None})]
  /\ pending \in [Processes -> Seq(Nat)]
  /\ vectors \in [Processes -> Seq(Vectors)]
  /\ attempt \in [Processes -> 1 .. MaxAttempts]
  /\ done \in [Processes -> Nat]
  /\ saved \subseteq Models \X Texts
  /\ \A p \in Processes : ~ Up(p) => pc[p] = "idle"

\* Every text of an answered list has the vector of this very text, computed
\* by the model the process runs with: whatever another model, another process
\* or a torn file left in the cache, and however many vectors the model sent
\* (embedding_service.py 86-115).
OwnVectors ==
  \A p \in Processes : pc[p] = "answered" =>
    \A i \in DOMAIN texts[p] : results[p][i] = Vector(model[p], texts[p][i])

\* "Persisted cache so restarts do not re-pay for embeddings" (embedding_service
\* .py 47): the model is never asked for a vector that was saved, unless since
\* then two processes had the file, a process that started could not read it,
\* or a later save was cut off or failed after it had emptied the file (49-65).
\* After any of these the promise is back with the next save of a process that
\* has the file to itself.
NeverPaidTwice ==
  \A p \in Processes : pc[p] = "calling" =>
    \A j \in DOMAIN pending[p] : KeyAt(p, pending[p][j]) \notin saved

\* A search ends, with vectors or an error, however the model fails
\* (bedrock_service.py 176-209).
SearchEnds ==
  \A p \in Processes : pc[p] = "calling" ~> pc[p] \in {"idle", "answered"}
=============================================================================
