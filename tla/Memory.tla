-------------------------------- MODULE Memory --------------------------------
(***************************************************************************)
(* Memories and their embedding vectors: memory/service.py over            *)
(* memory/sqlite_repository.py, with the commands of cli.py that use them. *)
(*                                                                         *)
(* Each statement on the table is atomic, and an operation is several of   *)
(* them: an update reads the row, writes it back whole, drops the vector   *)
(* and asks the embedding backend for a new one, outside any lock.  The    *)
(* clients are threads of the control server and other greatsage           *)
(* processes on the same file.  The backend may be down at any moment.     *)
(*                                                                         *)
(* A text is its version and a vector the version it was computed from.    *)
(* Of the filters, only deletion and expiry change under a search; the     *)
(* others compare columns that never change and are left out, like the     *)
(* order of the results.                                                   *)
(***************************************************************************)
EXTENDS Integers, FiniteSets

CONSTANTS Memories,     \* memory ids: none is used twice
          Clients,
          MaxVersion,   \* bound: versions of a text
          MaxNow,       \* bound: the clock
          MaxCalls      \* bound: calls of a client

MemoryAssumption == {MaxVersion, MaxNow, MaxCalls} \subseteq Nat

VARIABLES
    memories,   \* the table memories: text, expiry and deleted_at of each
    vectors,    \* the table memory_embeddings
    given,      \* ids given out
    now,
    client,     \* the call each client is in
    calls,      \* calls made so far
    revived,    \* history: forgotten, then written back by an update
    raced       \* history: two calls overlapped on it, or one died in it

memoryVars == <<memories, vectors, given, now, client, calls, revived, raced>>

Never == MaxNow + 1
None == [at |-> "idle"]
Expired(m) == memories[m].expires <= now
Stored(m) == m \in DOMAIN memories /\ ~memories[m].deleted
Live(m) == Stored(m) /\ ~Expired(m)
Found == {m \in given : Live(m)}           \* what a statement with filters finds

Without(f, m) == [x \in DOMAIN f \ {m} |-> f[x]]
Put(f, m, v) == [x \in DOMAIN f \cup {m} |-> IF x = m THEN v ELSE f[x]]
NewMemory(expires) == [text |-> 0, expires |-> expires, deleted |-> FALSE]

MemoryInit ==
    /\ memories = <<>> /\ vectors = <<>> /\ given = {} /\ now = 0
    /\ client = [c \in Clients |-> None]
    /\ calls = [c \in Clients |-> 0]
    /\ revived = {} /\ raced = {}

(* The memory a call works on, if it changes one.                          *)
Works(c, m) == client[c].at \in {"write", "drop", "embed", "save"} /\ client[c].on = m

Invokes(c) == client[c] = None /\ calls[c] < MaxCalls /\ calls' = [calls EXCEPT ![c] = @ + 1]
Proceeds(c, to) == client' = [client EXCEPT ![c] = to]
Races(c, m) == raced' = IF \E d \in Clients \ {c} : Works(d, m) THEN raced \cup {m} ELSE raced

(* What a call does after this memory: a sweep over several goes on.       *)
Rest(c) == IF "todo" \in DOMAIN client[c]
           THEN [at |-> client[c].sweep, todo |-> client[c].todo]
           ELSE None
Doing(c, at, m) == [at |-> at, on |-> m]
Within(c, at, m) == [at |-> at, on |-> m, sweep |-> client[c].at,
                     todo |-> client[c].todo \ {m}]

-----------------------------------------------------------------------------
(* remember, record_episode and add_semantic: episodes get an expiry.      *)
Remember(c) ==
    /\ Invokes(c)
    /\ \E m \in Memories \ given, expires \in {1, Never} :
         /\ memories' = Put(memories, m, NewMemory(expires))
         /\ given' = given \cup {m}
         /\ Proceeds(c, [at |-> "embed", on |-> m, text |-> 0])
    /\ UNCHANGED <<vectors, now, revived, raced>>

UpdateReads(c) ==
    /\ Invokes(c)
    /\ \E m \in given :
         /\ Live(m) /\ memories[m].text < MaxVersion
         /\ Proceeds(c, [at |-> "write", on |-> m, row |-> memories[m]])
         /\ Races(c, m)
    /\ UNCHANGED <<memories, vectors, given, now, revived>>

(* The row goes back as it was read, deleted_at included.                  *)
UpdateWrites(c) ==
    /\ client[c].at = "write"
    /\ LET m == client[c].on IN
       /\ memories' = [memories EXCEPT ![m] = [client[c].row EXCEPT !.text = @ + 1]]
       /\ revived' = IF memories[m].deleted THEN revived \cup {m} ELSE revived
       /\ Proceeds(c, [at |-> "drop", on |-> m, text |-> client[c].row.text + 1])
    /\ UNCHANGED <<vectors, given, now, calls, raced>>

(* A mutant: the new vector replaces the old one, when there is a new one. *)
KeepsVector(c) ==
    /\ client[c].at = "drop"
    /\ Proceeds(c, IF "text" \in DOMAIN client[c]
               THEN [at |-> "embed", on |-> client[c].on, text |-> client[c].text]
               ELSE Rest(c))
    /\ UNCHANGED <<memories, vectors, given, now, calls, revived, raced>>

(* delete_embedding: after an update the text is embedded again, after a   *)
(* forget the call is over.                                                *)
DropsVector(c) ==
    /\ client[c].at = "drop"
    /\ vectors' = Without(vectors, client[c].on)
    /\ Proceeds(c, IF "text" \in DOMAIN client[c]
               THEN [at |-> "embed", on |-> client[c].on, text |-> client[c].text]
               ELSE Rest(c))
    /\ UNCHANGED <<memories, given, now, calls, revived, raced>>

(* The backend answers with a vector of the text it was sent.              *)
SaveEmbedding(m, vector) == vectors' = Put(vectors, m, vector)
Computes(c) == SaveEmbedding(client[c].on, client[c].text)

(* _maybe_embed and the loop of a reindex: without the backend there is no *)
(* vector and the call goes on.                                            *)
Embeds(c) ==
    /\ client[c].at \in {"embed", "save"}
    /\ Computes(c) \/ UNCHANGED vectors
    /\ Proceeds(c, Rest(c))
    /\ UNCHANGED <<memories, given, now, calls, revived, raced>>

-----------------------------------------------------------------------------
(* forget: an expired memory is not found, nor one deleted before.         *)
Deletes(m) == memories' = [memories EXCEPT ![m].deleted = TRUE]

Forget(c) ==
    /\ Invokes(c)
    /\ \E m \in given :
         /\ Live(m)
         /\ Deletes(m)
         /\ Proceeds(c, Doing(c, "drop", m))
         /\ Races(c, m)
    /\ UNCHANGED <<vectors, given, now, revived>>

(* memory delete with a filter: what was listed is forgotten one by one,   *)
(* up to the first that is not found any more.                             *)
BulkLists(c) ==
    /\ Invokes(c)
    /\ Proceeds(c, [at |-> "bulk", todo |-> Found])
    /\ UNCHANGED <<memories, vectors, given, now, revived, raced>>

BulkForgets(c) ==
    /\ client[c].at = "bulk"
    /\ \/ \E m \in client[c].todo :
            \/ Live(m) /\ Deletes(m) /\ Proceeds(c, Within(c, "drop", m)) /\ Races(c, m)
            \/ ~Live(m) /\ Proceeds(c, None) /\ UNCHANGED <<memories, raced>>
       \/ client[c].todo = {} /\ Proceeds(c, None) /\ UNCHANGED <<memories, raced>>
    /\ UNCHANGED <<vectors, given, now, calls, revived>>

(* expire: the vectors of what it deletes stay.                            *)
ExpireAll(c) ==
    /\ Invokes(c)
    /\ memories' = [m \in DOMAIN memories |->
         [memories[m] EXCEPT !.deleted = @ \/ Expired(m)]]
    /\ UNCHANGED <<vectors, given, now, client, revived, raced>>

ReindexLists(c) ==
    /\ Invokes(c)
    /\ Proceeds(c, [at |-> "reindex",
                todo |-> {m \in given : ~memories[m].deleted /\ m \notin DOMAIN vectors}])
    /\ UNCHANGED <<memories, vectors, given, now, revived, raced>>

ReindexReads(c) ==
    /\ client[c].at = "reindex"
    /\ \/ \E m \in client[c].todo :
            \/ /\ Live(m)
               /\ Proceeds(c, [at |-> "save", on |-> m, text |-> memories[m].text,
                           sweep |-> "reindex", todo |-> client[c].todo \ {m}])
               /\ Races(c, m)
            \/ /\ ~Live(m)
               /\ Proceeds(c, [client[c] EXCEPT !.todo = @ \ {m}])
               /\ UNCHANGED raced
       \/ client[c].todo = {} /\ Proceeds(c, None) /\ UNCHANGED raced
    /\ UNCHANGED <<memories, vectors, given, now, calls, revived>>

-----------------------------------------------------------------------------
(* retrieve: one statement, or with semantic the list of vectors and then  *)
(* each row read again under the filters.  gone is history: what was not   *)
(* to be shown when the recall began, or later while it had still to be    *)
(* read.                                                                   *)
Recall(c) ==
    /\ Invokes(c)
    /\ Proceeds(c, [at |-> "recall", result |-> Found, gone |-> given \ Found, listed |-> {}])
    /\ UNCHANGED <<memories, vectors, given, now, revived, raced>>

RecallLists(c) ==
    /\ Invokes(c)
    /\ Proceeds(c, [at |-> "recall", result |-> {}, gone |-> given \ Found,
                listed |-> {m \in DOMAIN vectors : Stored(m)}])
    /\ UNCHANGED <<memories, vectors, given, now, revived, raced>>

(* A mutant: the row that came with the vector is good enough.             *)
ShowsListed(c, m) == TRUE
(* get, under the filters: what was deleted or has expired is not shown.   *)
Shows(c, m) == Live(m)

RecallTakes(c) ==
    /\ client[c].at = "recall"
    /\ \/ \E m \in client[c].listed :
            Proceeds(c, [client[c] EXCEPT !.listed = @ \ {m},
                                      !.gone = @ \cup (client[c].listed \ Found),
                                      !.result = IF Shows(c, m) THEN @ \cup {m} ELSE @])
       \/ client[c].listed = {} /\ Proceeds(c, None)
    /\ UNCHANGED <<memories, vectors, given, now, calls, revived, raced>>

Dies(c) ==
    /\ client[c] # None
    /\ Proceeds(c, None)
    /\ calls' = [calls EXCEPT ![c] = MaxCalls]
    /\ raced' = raced \cup {m \in Memories : Works(c, m)}
    /\ UNCHANGED <<memories, vectors, given, now, revived>>

Later ==
    /\ now < MaxNow
    /\ now' = now + 1
    /\ UNCHANGED <<memories, vectors, given, client, calls, revived, raced>>

MemoryNext ==
    \/ \E c \in Clients :
         \/ Remember(c) \/ UpdateReads(c) \/ UpdateWrites(c) \/ DropsVector(c) \/ Embeds(c)
         \/ Forget(c) \/ BulkLists(c) \/ BulkForgets(c) \/ ExpireAll(c)
         \/ ReindexLists(c) \/ ReindexReads(c)
         \/ Recall(c) \/ RecallLists(c) \/ RecallTakes(c)
         \/ Dies(c)
    \/ Later

MemorySpec == MemoryInit /\ [][MemoryNext]_memoryVars

-----------------------------------------------------------------------------
(* The vector a semantic recall ranks by was computed from the text the    *)
(* memory has now, whenever no call is at work on the memory and none has  *)
(* overlapped another there or died half way: a backend that was down      *)
(* leaves no vector, never an old one.                                     *)
VectorsMatch ==
    \A m \in DOMAIN vectors :
        \/ memories[m].deleted
        \/ m \in raced
        \/ \E c \in Clients : Works(c, m)
        \/ vectors[m] = memories[m].text

(* A semantic recall shows nothing that was forgotten or had expired       *)
(* before it began, or between the list of vectors and its own reading of  *)
(* the row ("exclude expired and deleted memories"), except what an update *)
(* wrote back.                                                             *)
NothingForgottenRecalled ==
    \A c \in Clients : client[c].at = "recall" =>
        client[c].result \cap client[c].gone \subseteq revived

(* A forgotten memory stays forgotten.                                     *)
ForgottenStaysForgotten == revived = {}
=============================================================================
