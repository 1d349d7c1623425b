--------------------------- MODULE WebConversation ---------------------------
(***************************************************************************)
(* The Web interface: conversations hosted by one server (web-server/       *)
(* server.ts), what each of them presents (web-server/interaction.ts), and  *)
(* the copies that browser pages keep (web/use-conversation.ts). A page     *)
(* gets a snapshot of the server's current conversation, when it asks and   *)
(* when its event stream opens, and patches of every conversation as they   *)
(* are made; the two come over different connections and in any order.      *)
(*                                                                         *)
(* An entry is the number of pieces its text has been streamed in; the rest *)
(* of a view is whether a request runs and which decision is shown. Paging  *)
(* of long histories is left out. "gen" counts the times a conversation was *)
(* opened, "passed" is the newest change of a conversation, since it was    *)
(* opened last, that a page was told of or missed: no code reads them, the  *)
(* property does.                                                          *)
(***************************************************************************)
EXTENDS Naturals, Sequences, SequencesExt, FiniteSets

CONSTANTS
  Pages, Threads, None,  \* pages other than these may send, answer, open and edit too
  MaxChanges,  \* bound: changes of what a conversation presents
  MaxMoves,    \* bound: conversations opened, folders changed, refreshes asked, streams broken
  MaxReplies   \* bound: answers on their way to one page

VARIABLES
  current,     \* the conversation of snapshots: this.app, this.port
  moving,      \* "transitioning" and what is in progress
  host, page, changes, moves

vars == <<current, moving, host, page, changes, moves>>

Quiet == [busy |-> FALSE, decision |-> 0]
Still == [what |-> "nothing", thread |-> None, by |-> None]
Fresh == [open |-> FALSE, gen |-> 0, seq |-> 0, running |-> FALSE, entries |-> <<>>, asked |-> <<>>]
NewPage == [thread |-> None, gen |-> 0, seq |-> 0, entries |-> <<>>, state |-> Quiet,
            stream |-> <<>>, begun |-> FALSE, connected |-> FALSE, wants |-> TRUE, replies |-> {},
            passed |-> [t \in Threads |-> 0], late |-> FALSE]

Init ==
  /\ current = None /\ moving = Still
  /\ host = [t \in Threads |-> Fresh]
  /\ page = [p \in Pages |-> NewPage]
  /\ changes = 0 /\ moves = 0

Change == changes < MaxChanges /\ changes' = changes + 1
Moved == moves < MaxMoves /\ moves' = moves + 1

-----------------------------------------------------------------------------
(* What a conversation presents *)

\* view
State(h) == [busy |-> h.running, decision |-> IF h.asked = <<>> THEN 0 ELSE Head(h.asked)]
Snapshot ==
  IF current = None
  THEN [kind |-> "snapshot", thread |-> None, gen |-> 0, seq |-> 0, entries |-> <<>>, state |-> Quiet]
  ELSE [kind |-> "snapshot", thread |-> current, gen |-> host[current].gen, seq |-> host[current].seq,
        entries |-> host[current].entries, state |-> State(host[current])]

Patch(t, gen, n, kind, entries, state) ==
  [kind |-> kind, thread |-> t, gen |-> gen, seq |-> n, entries |-> entries, state |-> state]
\* A page was told of these changes, or missed them.
Told(c, S) == [c EXCEPT !.passed = [t \in Threads |->
  Max({@[t]} \cup {m.seq : m \in {n \in S : n.thread = t /\ n.gen = host[t].gen}})]]
\* sendEvent, to every stream.
Broadcast(events) ==
  [p \in Pages |-> IF page[p].connected THEN [page[p] EXCEPT !.stream = @ \o events]
                   ELSE Told(page[p], ToSet(events))]

\* emit: conversation t now is h, and says so in patches of these kinds.
Emit(t, h, kinds) ==
  /\ host' = [host EXCEPT ![t] = [h EXCEPT !.seq = host[t].seq + Len(kinds)]]
  /\ page' = Broadcast([n \in DOMAIN kinds |->
       Patch(t, h.gen, host[t].seq + n, kinds[n], IF kinds[n] = "reset" THEN h.entries ELSE <<>>, State(h))])

Running(t) == host[t].open /\ host[t].running

\* apiMessage, run: presentUser, setCurrentRequest; from any page that names t.
Message(t) ==
  /\ host[t].open /\ ~host[t].running /\ Change
  /\ Emit(t, [host[t] EXCEPT !.running = TRUE, !.entries = Append(@, 0)], <<"append", "state">>)
  /\ UNCHANGED <<current, moving, moves>>

\* modelStream, append: a new entry.
Say(t) ==
  /\ Running(t) /\ Change
  /\ Emit(t, [host[t] EXCEPT !.entries = Append(@, 0)], <<"append">>)
  /\ UNCHANGED <<current, moving, moves>>

\* stream, flushStream: the text added since the last flush.
Flush(t) ==
  /\ Running(t) /\ Change
  /\ LET e == host[t].entries
     IN  Emit(t, [host[t] EXCEPT !.entries = [e EXCEPT ![Len(e)] = @ + 1]], <<"delta">>)
  /\ UNCHANGED <<current, moving, moves>>

\* clearScreen, resetForNewThread
ClearScreen(t) ==
  /\ host[t].open /\ ~host[t].running /\ Change
  /\ Emit(t, [host[t] EXCEPT !.entries = <<>>], <<"reset">>)
  /\ UNCHANGED <<current, moving, moves>>

\* awaitDecision
Await(t) ==
  /\ Running(t) /\ Change
  /\ Emit(t, [host[t] EXCEPT !.asked = Append(@, changes + 1)], <<"state">>)
  /\ UNCHANGED <<current, moving, moves>>

\* resolveDecision, once: by a page that shows it, by its timer, which runs while it is the
\* first (armHeadDecisionTimeout), or because who asked has been aborted.
Resolve(t) ==
  /\ Running(t)
  /\ \E n \in DOMAIN host[t].asked : Emit(t, [host[t] EXCEPT !.asked = RemoveAt(@, n)], <<"state">>)
  /\ UNCHANGED <<current, moving, changes, moves>>

\* clearCurrentRequest, and broadcastStatus when the work has ended.
Finish(t) ==
  /\ Running(t) /\ host[t].asked = <<>>
  /\ LET h == [host[t] EXCEPT !.running = FALSE, !.seq = @ + 1]
     IN  /\ host' = [host EXCEPT ![t] = h]
         /\ page' = Broadcast(<<Patch(t, h.gen, h.seq, "state", <<>>, State(h)),
                                  Patch(t, h.gen, 0, "status", <<>>, Quiet)>>)
  /\ UNCHANGED <<current, moving, changes, moves>>

-----------------------------------------------------------------------------
(* Conversations are opened and closed *)

\* Page p, or one of those that are not in Pages (None), asks for the state once it is answered.
Asking(pages, p) == IF p = None THEN pages ELSE [pages EXCEPT ![p].wants = TRUE]

\* switchSession: a conversation that is hosted, or one that is about to be.
Open(p, t) ==
  /\ p # None => page[p].begun
  /\ moving.what = "nothing" /\ Moved
  /\ IF host[t].open
     THEN current' = t /\ page' = Asking(page, p) /\ UNCHANGED moving
     ELSE moving' = [what |-> "open", thread |-> t, by |-> p] /\ UNCHANGED <<current, page>>
  /\ UNCHANGED <<host, changes>>

\* attachHost: the history is loaded, and everybody told.
Attach ==
  LET t == moving.thread
      h == [host[t] EXCEPT !.open = TRUE, !.gen = @ + 1, !.seq = 1]
      told == [p \in Pages |-> [Broadcast(<<Patch(t, h.gen, 1, "reset", h.entries, Quiet)>>)[p] EXCEPT
                                  !.passed[t] = IF page[p].connected THEN 0 ELSE 1]]
  IN  /\ moving.what = "open"
      /\ host' = [host EXCEPT ![t] = h]
      /\ current' = t /\ moving' = Still
      /\ page' = Asking(told, moving.by)
      /\ UNCHANGED <<changes, moves>>

\* mutateProjectFolders: nothing runs when it begins; the hosts are closed one by one.
EditFolders(p) ==
  /\ p # None => page[p].begun
  /\ moving.what = "nothing" /\ Moved
  /\ \A t \in Threads : ~Running(t)
  /\ moving' = [what |-> "edit", thread |-> None, by |-> p]
  /\ UNCHANGED <<current, host, page, changes>>

\* closeProjectHosts: the host is detached, so that nobody hears what closing it emits.
CloseHost(t) ==
  /\ moving.what = "edit" /\ host[t].open
  /\ host' = [host EXCEPT ![t] = [@ EXCEPT !.open = FALSE, !.running = FALSE, !.asked = <<>>]]
  /\ UNCHANGED <<current, moving, page, changes, moves>>

\* leaveCurrentSession
Edited ==
  /\ moving.what = "edit" /\ \A t \in Threads : ~host[t].open
  /\ current' = None /\ moving' = Still
  /\ page' = Asking(page, moving.by)
  /\ UNCHANGED <<host, changes, moves>>

-----------------------------------------------------------------------------
(* Pages *)

\* start, apiEvents: after the first snapshot; and again by itself when it breaks.
Connect(p) ==
  /\ page[p].begun /\ ~page[p].connected
  /\ page' = [page EXCEPT ![p].connected = TRUE, ![p].stream = <<Snapshot>>]
  /\ UNCHANGED <<current, moving, host, changes, moves>>

\* The connection breaks, or the page was too far behind.
Disconnect(p) ==
  /\ page[p].connected /\ Moved
  /\ page' = [page EXCEPT ![p] = Told([@ EXCEPT !.connected = FALSE, !.stream = <<>>],
                 {m \in ToSet(@.stream) : m.kind # "snapshot"})]
  /\ UNCHANGED <<current, moving, host, changes>>

\* refresh: GET /api/state
Refresh(p) ==
  /\ page[p].begun /\ ~page[p].wants /\ Moved
  /\ page' = [page EXCEPT ![p].wants = TRUE]
  /\ UNCHANGED <<current, moving, host, changes>>
Reply(p) ==
  /\ page[p].wants /\ Cardinality(page[p].replies) < MaxReplies
  /\ page' = [page EXCEPT ![p].wants = FALSE, ![p].replies = @ \cup {Snapshot}]
  /\ UNCHANGED <<current, moving, host, changes, moves>>

\* applySnapshot: not an older one of the conversation that is shown.
Shown(c, s) ==
  LET d == Told(c, {s})
  IN  IF s.thread = c.thread /\ s.seq < c.seq THEN c
      ELSE [d EXCEPT !.thread = s.thread, !.gen = s.gen, !.seq = s.seq, !.entries = s.entries,
                     !.state = s.state, !.begun = TRUE,
                     !.late = s.thread # None /\ d.passed[s.thread] # s.seq]
ReadReply(p) ==
  /\ \E s \in page[p].replies :
       page' = [page EXCEPT ![p] = Shown([page[p] EXCEPT !.replies = @ \ {s}], s)]
  /\ UNCHANGED <<current, moving, host, changes, moves>>

\* What a patch does to the copy.
Patched(c, m) ==
  LET d == [c EXCEPT !.seq = m.seq, !.late = @ \/ m.gen # c.gen]
      e == c.entries
  IN  CASE m.kind = "append" -> [d EXCEPT !.entries = Append(e, 0)]
        [] m.kind = "delta" -> [d EXCEPT !.entries = IF e = <<>> THEN e ELSE [e EXCEPT ![Len(e)] = @ + 1]]
        [] m.kind = "reset" -> [d EXCEPT !.entries = m.entries]
        [] m.kind = "state" -> [d EXCEPT !.state = m.state, !.wants = @ \/ (c.state.busy /\ ~m.state.busy)]

\* Mutant: a patch that the snapshot has already counted is applied again.
AppliedAgain(c, m) == Patched(c, m)
\* applyPatch
Applied(c, m) == IF m.seq <= c.seq THEN c ELSE Patched(c, m)

ReadStream(p) ==
  LET m == Head(page[p].stream)
      c == [page[p] EXCEPT !.stream = Tail(@)]
  IN  /\ page[p].stream # <<>>
      /\ page' = [page EXCEPT ![p] =
           CASE m.kind = "snapshot" -> Shown(c, m)
             [] m.kind = "status" -> [c EXCEPT !.wants = TRUE]
             [] OTHER -> IF m.thread = c.thread THEN Applied(Told(c, {m}), m) ELSE Told(c, {m})]
      /\ UNCHANGED <<current, moving, host, changes, moves>>

Next ==
  \/ \E p \in Pages : Connect(p) \/ Disconnect(p) \/ Refresh(p) \/ Reply(p) \/ ReadReply(p) \/ ReadStream(p)
  \/ \E p \in Pages \cup {None} : EditFolders(p) \/ (\E t \in Threads : Open(p, t))
  \/ \E t \in Threads :
       \/ Message(t) \/ Say(t) \/ Flush(t) \/ ClearScreen(t)
       \/ Await(t) \/ Resolve(t) \/ Finish(t) \/ CloseHost(t)
  \/ Attach \/ Edited

Spec == Init /\ [][Next]_vars

-----------------------------------------------------------------------------
(* Properties *)

\* A page that has read everything on its way to it shows the conversation as it is,
\* whichever of snapshots, patches and reconnections came first. Two cases excepted:
\* the conversation was closed and opened since, which starts the numbers of its
\* patches again; and the snapshot is older than a patch that is not sent again: one
\* that came while the stream was broken or the page showed another conversation, or
\* one of the page's own before it showed another conversation in between.
Settled(p) == page[p].connected /\ page[p].stream = <<>> /\ page[p].replies = {}
Agrees(p) ==
  LET h == host[page[p].thread]
  IN  page[p].entries = h.entries /\ page[p].state = State(h)
PageAgrees ==
  \A p \in Pages : Settled(p) /\ page[p].thread # None =>
    \/ Agrees(p)
    \/ page[p].gen # host[page[p].thread].gen \/ ~host[page[p].thread].open
    \/ page[p].late
=============================================================================
