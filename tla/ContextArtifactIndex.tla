------------------------- MODULE ContextArtifactIndex -------------------------
(***************************************************************************)
(* The index of a conversation's evidence (context/artifact-index.ts, and  *)
(* the tables and triggers of storage/schema.ts): rows for its messages and *)
(* accepted summaries, kept up to date before every search; embeddings of   *)
(* them, filled in behind the searches; and an index of the embeddings in   *)
(* memory, rebuilt when the generation of the tables has moved on.          *)
(*                                                                         *)
(* One conversation and the process that holds it. Its history is checked   *)
(* in first, then searched, sometimes by several queries at once (review/   *)
(* application.ts); the embeddings of earlier searches are still being made *)
(* meanwhile. A message is the number it was said as, and fills one row;    *)
(* words, scores and the number of hits are left out. "dropped" is for the  *)
(* property: a restart took messages that have rows from the conversation.  *)
(***************************************************************************)
EXTENDS Naturals, Sequences, FiniteSets, FiniteSetsExt

CONSTANTS
  Queries,
  Limit,     \* rows embedded at a time: DEFAULT_BACKFILL_LIMIT = 32
  Retries,   \* MAX_CACHE_RETRIES = 4
  MaxSaid,   \* bound: messages and summaries
  MaxFaults  \* bound: messages not written, embeddings that fail, caches evicted, restarts

VARIABLES
  history, saved,  \* the messages of the conversation: in memory, in the journal
  summary,         \* the summary the last compaction accepted, and the messages it is of
  said,
  rows,            \* context_artifacts
  embedded,        \* context_artifact_embeddings: rows as they were when embedded
  generation,      \* context_vector_state
  checkpoint,      \* context_checkpoints: messages indexed, summary indexed, limits used
  limits,          \* of the running process: indexBudgetKey
  cached, build,   \* caches, cacheBuilds
  backfill,        \* rows being embedded
  disabled,        \* vectorDisabledUntil is not over
  flow,            \* "idle", "checking" or "searching"
  query, dropped, faults

tables == <<rows, embedded, generation, checkpoint>>
vectors == <<cached, build, backfill, disabled>>
talk == <<history, saved, summary, said>>
vars == <<talk, tables, limits, vectors, flow, query, dropped, faults>>

NoIndex == [generation |-> 0, of |-> {}]
NoBuild == [owner |-> {}, index |-> NoIndex]
Quiet == [at |-> "idle", tries |-> 0, index |-> NoIndex, waits |-> FALSE]
NoSummary == [id |-> 0, end |-> 1]
Unchecked == [count |-> 0, summary |-> 0, limits |-> 0]

Init ==
  /\ history = <<>> /\ saved = <<>> /\ summary = NoSummary /\ said = 0
  /\ rows = {} /\ embedded = {} /\ generation = 0 /\ checkpoint = Unchecked
  /\ limits = 1
  /\ cached = NoIndex /\ build = NoBuild /\ backfill = {} /\ disabled = FALSE
  /\ flow = "idle" /\ query = [q \in Queries |-> Quiet]
  /\ dropped = FALSE /\ faults = 0

Fault == faults < MaxFaults /\ faults' = faults + 1

-----------------------------------------------------------------------------
(* The conversation *)

Say ==
  /\ flow = "idle" /\ said < MaxSaid /\ said' = said + 1
  /\ history' = Append(history, said') /\ saved' = Append(saved, said')
  /\ UNCHANGED <<summary, tables, limits, vectors, flow, query, dropped, faults>>

\* A message that joins the conversation before it is written, and is not written.
SayUnwritten ==
  /\ flow = "idle" /\ said < MaxSaid /\ said' = said + 1 /\ Fault
  /\ history' = Append(history, said')
  /\ UNCHANGED <<saved, summary, tables, limits, vectors, flow, query, dropped>>

\* A compaction; of a conversation that is in the journal as it is in memory.
Compact ==
  /\ flow = "idle" /\ said < MaxSaid /\ said' = said + 1
  /\ history # <<>> /\ history = saved
  /\ summary' = [id |-> said', end |-> Len(history)]
  /\ UNCHANGED <<history, saved, tables, limits, vectors, flow, query, dropped, faults>>

-----------------------------------------------------------------------------
(* checkpoint *)

\* artifactsForMessage
Row(i) == [kind |-> "message", at |-> i, text |-> history[i]]
SummaryRow == [kind |-> "summary", at |-> summary.end, text |-> summary.id]
SameKey(r, s) == r.kind = s.kind /\ IF r.kind = "message" THEN r.at = s.at ELSE r.text = s.text

Reset == checkpoint # Unchecked /\ (checkpoint.count > Len(history) \/ checkpoint.limits # limits)

\* The first message that has no row.
First == IF Reset THEN 1 ELSE checkpoint.count + 1

Pending ==
  {Row(i) : i \in First .. Len(history)}
    \cup (IF summary.id # 0 /\ (Reset \/ summary.id # checkpoint.summary) THEN {SummaryRow} ELSE {})

\* Triggers: every row written or deleted moves the generation.
Moved(n) == generation' = generation + n

\* It reads the last checkpoint, and splits texts one after the other.
Begin ==
  /\ flow = "idle" /\ history # <<>> /\ flow' = "checking"
  /\ UNCHANGED <<talk, tables, limits, vectors, query, dropped, faults>>

\* One transaction.
Commit ==
  LET kept == IF Reset THEN {} ELSE {r \in rows : \A p \in Pending : ~SameKey(r, p)}
  IN  /\ flow = "checking" /\ flow' = "searching"
      /\ rows' = kept \cup Pending
      /\ embedded' = IF Reset THEN {} ELSE embedded
      /\ Moved(Cardinality(Pending) + (IF Reset THEN Cardinality(rows) ELSE 0))
      /\ checkpoint' = [count |-> Len(history), summary |-> summary.id, limits |-> limits]
      /\ cached' = IF Pending # {} \/ Reset THEN NoIndex ELSE cached
      /\ dropped' = (dropped /\ ~Reset)
      /\ UNCHANGED <<talk, limits, build, backfill, disabled, query, faults>>

-----------------------------------------------------------------------------
(* Embeddings *)

\* isCurrentEmbedding, for the rows of the conversation.
Current == rows \cap embedded

\* queueBackfill, backfill: the newest rows that have none, below the search's boundary.
Stale(boundary) ==
  LET below == {r \in rows \ embedded : r.at < boundary}
  IN  {s \in SUBSET below :
        /\ Cardinality(s) = IF Cardinality(below) < Limit THEN Cardinality(below) ELSE Limit
        /\ \A r \in s, other \in below \ s : other.at <= r.at}

\* Written if the row is still what was embedded.
FinishBackfill ==
  LET written == backfill \cap rows
  IN  /\ backfill # {} /\ backfill' = {}
      /\ embedded' = {e \in embedded : \A w \in written : ~SameKey(e, w)} \cup written
      /\ Moved(Cardinality(written))
      /\ cached' = NoIndex
      /\ UNCHANGED <<talk, rows, checkpoint, limits, build, disabled, flow, query, dropped, faults>>

FailBackfill ==
  /\ backfill # {} /\ Fault
  /\ backfill' = {} /\ disabled' = TRUE
  /\ UNCHANGED <<talk, tables, limits, cached, build, flow, query, dropped>>

\* VECTOR_RETRY_DELAY_MS is over.
Cool ==
  /\ disabled /\ disabled' = FALSE
  /\ UNCHANGED <<talk, tables, limits, cached, build, backfill, flow, query, dropped, faults>>

-----------------------------------------------------------------------------
(* search *)

\* Embeddings are made in the background unless some are being made already.
Search(q) ==
  /\ flow = "searching" /\ query[q].at = "idle"
  /\ IF disabled
     THEN query' = [query EXCEPT ![q].at = "answered"] /\ UNCHANGED backfill
     ELSE /\ query' = [query EXCEPT ![q].at = "looking"]
          /\ \E boundary \in 1 .. Len(history) :
               IF backfill = {} THEN backfill' \in Stale(boundary) ELSE UNCHANGED backfill
  /\ UNCHANGED <<talk, tables, limits, cached, build, disabled, flow, dropped, faults>>

\* getCachedIndex: the index in the cache, or one that is built, by this search or another;
\* buildIndex reads the generation and the embeddings at once.
Look(q) ==
  /\ query[q].at = "looking"
  /\ IF query[q].tries = Retries
     THEN query' = [query EXCEPT ![q] = [Quiet EXCEPT !.at = "answered"]] /\ disabled' = TRUE /\ UNCHANGED build
     ELSE IF cached.generation = generation /\ cached # NoIndex
     THEN query' = [query EXCEPT ![q].at = "scoring", ![q].index = cached] /\ UNCHANGED <<build, disabled>>
     ELSE LET fresh == [generation |-> generation, of |-> Current]
              mine == build = NoBuild
          IN  /\ build' = IF mine THEN [owner |-> {q}, index |-> fresh] ELSE build
              /\ query' = [query EXCEPT ![q] = [at |-> "building", tries |-> @.tries + 1,
                                                index |-> build'.index, waits |-> ~mine]]
              /\ UNCHANGED disabled
  /\ UNCHANGED <<talk, tables, limits, cached, backfill, flow, dropped, faults>>

\* Mutant: an index that was being built while the tables changed is taken as it is.
UpToDateAnyway(index) == TRUE
UpToDate(index) == index.generation = generation

\* The index is built; whoever started it goes on first, and lets it go.
Built(q) ==
  LET mine == build.owner = {q}
      freed == [p \in Queries |-> IF mine THEN [query[p] EXCEPT !.waits = FALSE] ELSE query[p]]
  IN  /\ query[q].at = "building" /\ ~query[q].waits
      /\ build' = IF mine THEN NoBuild ELSE build
      /\ IF UpToDate(query[q].index)
         THEN /\ cached' = query[q].index
              /\ query' = [freed EXCEPT ![q].at = "scoring"]
         ELSE /\ cached' = NoIndex
              /\ query' = [freed EXCEPT ![q].at = "looking", ![q].index = NoIndex]
      /\ UNCHANGED <<talk, tables, limits, backfill, disabled, flow, dropped, faults>>

\* The query is embedded and the index asked; the rows are read again for the answer.
Answer(q) ==
  /\ query[q].at = "scoring"
  /\ query' = [query EXCEPT ![q] = [Quiet EXCEPT !.at = "answered"]]
  /\ disabled' = FALSE
  /\ UNCHANGED <<talk, tables, limits, cached, build, backfill, flow, dropped, faults>>

\* An embedding fails, and the answer is what the words alone find.
FailSearch(q) ==
  /\ query[q].at = "scoring" /\ Fault
  /\ query' = [query EXCEPT ![q] = [Quiet EXCEPT !.at = "answered"]]
  /\ disabled' = TRUE
  /\ UNCHANGED <<talk, tables, limits, cached, build, backfill, flow, dropped>>

Done ==
  /\ flow = "searching" /\ \A q \in Queries : query[q].at \in {"idle", "answered"}
  /\ flow' = "idle" /\ query' = [q \in Queries |-> Quiet]
  /\ UNCHANGED <<talk, tables, limits, vectors, dropped, faults>>

\* cacheIndex: other conversations need the room.
Evict ==
  /\ cached # NoIndex /\ Fault /\ cached' = NoIndex
  /\ UNCHANGED <<talk, tables, limits, build, backfill, disabled, flow, query, dropped>>

\* The process is replaced, perhaps with other limits: the journal is what was said.
Restart ==
  /\ Fault
  /\ history' = saved
  /\ limits' \in 1 .. 2
  /\ cached' = NoIndex /\ build' = NoBuild /\ backfill' = {} /\ disabled' = FALSE
  /\ flow' = "idle" /\ query' = [q \in Queries |-> Quiet]
  /\ dropped' = (dropped \/ \E r \in rows :
                   r.kind = "message" /\ (r.at > Len(saved) \/ r.text # saved[r.at]))
  /\ UNCHANGED <<saved, summary, said, tables>>

Next ==
  \/ Say \/ SayUnwritten \/ Compact \/ Begin \/ Commit
  \/ FinishBackfill \/ FailBackfill \/ Cool \/ Done \/ Evict \/ Restart
  \/ \E q \in Queries : Search(q) \/ Look(q) \/ Built(q) \/ Answer(q) \/ FailSearch(q)

Spec == Init /\ [][Next]_vars

-----------------------------------------------------------------------------
(* Properties *)

\* A search knows all of the conversation and nothing else: every message has its row,
\* and the accepted summary; and the index it asks holds exactly the embeddings there are,
\* whatever is being embedded or built meanwhile. Except that rows of messages a restart
\* took away stay, if the conversation has as many again before it is checked in.
Begun(q) == query[q].at # "scoring" /\ query'[q].at = "scoring"
KnowsHistory ==
  /\ {r \in rows : r.kind = "message"} = {Row(i) : i \in DOMAIN history}
  /\ summary.id # 0 => SummaryRow \in rows
SearchIsCurrent ==
  [][\A q \in Queries : Begun(q) => query'[q].index.of = Current /\ (KnowsHistory \/ dropped)]_vars
=============================================================================
