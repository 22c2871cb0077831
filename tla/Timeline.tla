------------------------------- MODULE Timeline -------------------------------
(***************************************************************************)
(* How a turn's output reaches its Discord thread: the renderer of         *)
(* src/core/turn-render.ts, the wiring of src/copilot/session-actor.ts,    *)
(* the debounced, serialized and epoch-fenced writer of                    *)
(* src/platforms/discord/discord-transport.ts and the anchor messages of   *)
(* render-chunks.ts.                                                       *)
(*                                                                         *)
(* A render block is what is written between two resets: a turn starts     *)
(* one, and every interaction card seals one so that later output starts   *)
(* below the card.  An item is what the renderer keeps of an event; its    *)
(* length is all that is left of its text.  A call to Discord is an action *)
(* of its own, and anything may happen while it is under way.              *)
(***************************************************************************)
EXTENDS Naturals, FiniteSets, Sequences, SequencesExt

CONSTANTS
    Tools,
    Cards,      \* interaction cards, steers and file uploads
    Capacity,   \* what one message can hold
    MaxText,    \* bound: the length of a text
    MaxTurns, MaxEvents, MaxFaults,     \* bounds
    EarlyTodos, \* a todo refresh may land before a new turn has its own renderer
    Nil

ASSUME TimelineAssumption ==
    /\ Capacity \in Nat \ {0} /\ MaxText \in Nat \ {0}
    /\ MaxTurns \in Nat /\ MaxEvents \in Nat /\ MaxFaults \in Nat
    /\ IsFiniteSet(Cards) /\ EarlyTodos \in BOOLEAN /\ "timer" \notin Cards /\ "turn" \notin Cards

VARIABLES
    turn, begun,    \* where the turn is, and how many have begun
    items, born,    \* the renderer's timeline, and the epoch it was made in
    carried,        \* carriedTools: calls whose name the renderer knows
    lastTodos,      \* lastTodosRender
    exists,         \* the transport holds an entry for the session
    epoch,          \* ... and its fields
    latest, armed, chain,
    msgIds,         \* the anchors of each epoch, as places in the thread
    write,          \* the doFlush under way
    thread,         \* what was ever posted, oldest first
    card,           \* the handler behind each card
    tool,           \* ghost: what became of each tool call
    late,           \* ghost: something was rendered since the last snapshot
    blip,           \* ghost: the epochs whose last write Discord failed
    events, faults

agent == <<turn, begun, tool, events>>
renderer == <<items, born, carried, lastTodos>>
transport == <<exists, epoch, latest, armed, chain>>
discord == <<msgIds, write, thread, faults>>
timelineVars == <<agent, renderer, transport, discord, card, late, blip>>

Epochs == 0 .. (MaxTurns + Cardinality(Cards))

NoWrite == [pc |-> "none", by |-> "timer", epoch |-> 0, chunks |-> <<>>, at |-> 0]

\* What a todo refresh may find: nothing, or one of two lists.
Todos == 0 .. 2

\* A permission, question or plan card (a plan is several messages, of which
\* the first tells where it stands); a card that asks to send a file; the upload
\* of one.
Kinds == {"ask", "file", "upload"}

\* A call is running, sealed above one card, beyond what is carried, or over.
ToolStates == {"new", "running", "sealed", "beyond", "done"}

\* What the renderer keeps of an event.
Items == [kind : {"text", "tool", "reasoning", "notice", "audit", "todos"}, id : Tools \cup Nat,
          v : Int, open : BOOLEAN, named : BOOLEAN]

ASSUME NilIsNoTimeline == Nil \notin Seq(Items)

\* A flush is for the timer, the end of a turn or a card.
Askers == {"timer", "turn"} \cup Cards

TimelineTypeOK ==
    /\ turn \in {"idle", "preparing", "running", "ending", "ended"} /\ begun \in 0 .. MaxTurns
    /\ carried \subseteq Tools /\ lastTodos \in Todos
    /\ exists \in BOOLEAN /\ armed \in BOOLEAN /\ epoch \in Epochs
    /\ items \in Seq(Items) /\ born \in Epochs /\ latest \in Seq(Items) \cup {Nil}
    /\ chain \in Seq([by : Askers, epoch : Epochs])
    /\ msgIds \in [Epochs -> Seq(Nat)]
    /\ write \in [pc : {"none", "thread", "fetch", "edit", "send", "late", "trim"}, by : Askers,
                  epoch : Epochs, chunks : Seq(Seq(Items)), at : Nat]
    /\ thread \in Seq([card : BOOLEAN, epoch : Epochs, content : Seq(Items), live : BOOLEAN, stray : BOOLEAN])
    /\ card \in [Cards -> [at : {"none", "flushing", "posting", "over"}, kind : Kinds,
                            tools : SUBSET Tools, turn : 0 .. MaxTurns]]
    /\ tool \in [Tools -> ToolStates]
    /\ late \in BOOLEAN /\ blip \subseteq Epochs /\ events \in 0 .. MaxEvents /\ faults \in 0 .. MaxFaults

TimelineInit ==
    /\ turn = "idle" /\ begun = 0
    /\ items = <<>> /\ born = 0 /\ carried = {} /\ lastTodos = 0
    /\ exists = FALSE /\ epoch = 0 /\ latest = Nil /\ armed = FALSE /\ chain = <<>>
    /\ msgIds = [e \in Epochs |-> <<>>] /\ write = NoWrite /\ thread = <<>>
    /\ card = [c \in Cards |-> [at |-> "none", kind |-> "ask", tools |-> {}, turn |-> 0]]
    /\ tool = [t \in Tools |-> "new"]
    /\ late = FALSE /\ blip = {} /\ events = 0 /\ faults = 0

-----------------------------------------------------------------------------
(* The renderer.                                                           *)

Item(kind, id, v) == [kind |-> kind, id |-> id, v |-> v, open |-> FALSE, named |-> TRUE]

Close(s) == [i \in DOMAIN s |-> [s[i] EXCEPT !.open = FALSE]]
At(s, kind, id) == {i \in DOMAIN s : s[i].kind = kind /\ s[i].id = id}
OpenText(s) == {i \in DOMAIN s : s[i].open}
Texts(s) == {i \in DOMAIN s : s[i].kind = "text"}

\* A status goes ahead of the last text, so that the answer stays at the bottom.
StatusIndex(s) == IF Texts(s) = {} THEN Len(s) + 1 ELSE Max(Texts(s))
WithStatus(s, item) == InsertAt(Close(s), StatusIndex(s), item)

\* An item with this key grows, or a new one is appended.
Grown(s, kind, id) ==
    IF At(s, kind, id) = {} THEN Append(s, Item(kind, id, 1))
    ELSE [i \in DOMAIN s |-> IF i \in At(s, kind, id) THEN [s[i] EXCEPT !.v = @ + 1] ELSE s[i]]

\* Mutant: the calls that are over are taken for those in flight.
InFlightToolsOver(s) == {t \in Tools : \E i \in At(s, "tool", t) : s[i].v = 2}

InFlightTools(s) == {t \in Tools : \E i \in At(s, "tool", t) : s[i].v = 1}

-----------------------------------------------------------------------------
(* What a timeline looks like as messages.                                 *)

\* Bound: only an answer outgrows a message.
Length(item) == IF item.kind = "text" THEN item.v ELSE 1

\* A text is cut without loss into full messages and a rest.
Cuts(n) ==
    LET last == (n + Capacity - 1) \div Capacity
    IN  [k \in 1 .. last |-> IF k < last THEN Capacity ELSE n - (last - 1) * Capacity]

\* The messages an item needs by itself.
Parts(item) ==
    [k \in DOMAIN Cuts(Length(item)) |-> [item EXCEPT !.open = FALSE,
        !.v = IF item.kind = "text" THEN Cuts(Length(item))[k] ELSE @]]

Weight(chunk) == FoldLeft(LAMBDA n, item : n + Length(item), 0, chunk)

\* Greedy packing: whole items share a message as long as they fit.
Packed(chunks, item) ==
    IF /\ chunks # <<>> /\ Len(Parts(item)) = 1
       /\ Weight(Last(chunks)) + Length(item) <= Capacity
    THEN [chunks EXCEPT ![Len(chunks)] = Append(@, Parts(item)[1])]
    ELSE chunks \o [k \in DOMAIN Parts(item) |-> <<Parts(item)[k]>>]

Chunks(s) == FoldLeft(Packed, <<>>, s)

-----------------------------------------------------------------------------
(* The transport.                                                          *)

\* Mutant: an armed timer is looked at before the state is kept.
RenderUnlessArmed(s) ==
    /\ items' = s
    /\ exists' = TRUE /\ latest' = (IF armed THEN latest ELSE s) /\ armed' = TRUE /\ late' = TRUE
    /\ UNCHANGED <<epoch, chain>>

\* `render`: keep the state, and arm the timer unless it is armed.
Render(s) ==
    /\ items' = s
    /\ exists' = TRUE /\ latest' = s /\ armed' = TRUE /\ late' = TRUE
    /\ UNCHANGED <<epoch, chain>>

\* `flush`: write behind whatever is being written.
Flush(by) ==
    /\ armed' = FALSE
    /\ chain' = Append(chain, [by |-> by, epoch |-> epoch])
    /\ UNCHANGED <<exists, epoch, latest>>

\* `resetTurn`: a new epoch, without anchors, state or timer.
Reset ==
    /\ exists' = TRUE /\ epoch' = epoch + 1 /\ latest' = Nil /\ armed' = FALSE
    /\ late' = FALSE

\* Mutant: only a disposal is noticed.
StillThere == exists

StillCurrent == exists /\ write.epoch = epoch

Fenced(c) == card[c].kind # "ask"
Current(c) == turn = "running" /\ card[c].turn = begun

\* After the flush a card starts a new block, a file card only if its turn runs.
Sealed(c) ==
    LET carry == IF card[c].kind = "upload" THEN InFlightTools(items) ELSE card[c].tools
    IN  /\ Reset
        /\ items' = <<>> /\ born' = epoch + 1 /\ carried' = carry
        /\ card' = [card EXCEPT ![c].at = "posting"]
        /\ tool' = [t \in Tools |-> CASE tool[t] = "running" -> "sealed"
                                      [] tool[t] = "sealed" -> "beyond"
                                      [] OTHER -> tool[t]]
        /\ UNCHANGED <<turn, lastTodos>>

\* Whoever waited for this flush goes on.
Resumed(by) ==
    \/ /\ by = "timer"
       /\ UNCHANGED <<turn, tool, card, renderer, exists, epoch, latest, armed, late>>
    \/ /\ by = "turn"
       /\ turn' = IF turn = "ending" THEN "idle" ELSE turn
       /\ UNCHANGED <<tool, card, renderer, exists, epoch, latest, armed, late>>
    \/ /\ by \in Cards /\ (Fenced(by) => Current(by))
       /\ Sealed(by)
    \/ /\ by \in Cards /\ Fenced(by) /\ ~Current(by)
       /\ card' = [card EXCEPT ![by].at = "over"]
       /\ UNCHANGED <<turn, tool, renderer, exists, epoch, latest, armed, late>>

-----------------------------------------------------------------------------
(* Events: each changes the renderer and renders at once.                  *)

Applied(s) ==
    /\ events < MaxEvents /\ events' = events + 1
    /\ Render(s)
    /\ UNCHANGED <<turn, begun, born, discord, card, blip>>

\* `assistant.message_delta`
Delta ==
    /\ turn = "running"
    /\ \A i \in OpenText(items) : items[i].v < MaxText
    /\ Applied(IF OpenText(items) = {} THEN Append(items, [Item("text", epoch, 1) EXCEPT !.open = TRUE])
               ELSE [i \in DOMAIN items |-> IF items[i].open THEN [items[i] EXCEPT !.v = @ + 1] ELSE items[i]])
    /\ UNCHANGED <<tool, carried, lastTodos>>

\* `assistant.message`: what it says replaces the open text, unless it is empty.
Answer(v) ==
    /\ turn = "running"
    /\ OpenText(items) = {} => v > 0
    /\ Applied(IF OpenText(items) = {} THEN Append(items, Item("text", epoch, v))
               ELSE Close([i \in DOMAIN items |->
                        IF items[i].open /\ v > 0 THEN [items[i] EXCEPT !.v = v] ELSE items[i]]))
    /\ UNCHANGED <<tool, carried, lastTodos>>

\* `assistant.reasoning(_delta)` of one reasoning, `assistant.intent` the same.
Reasoning ==
    /\ turn = "running"
    /\ Applied(Grown(Close(items), "reasoning", 0))
    /\ UNCHANGED <<tool, carried, lastTodos>>

\* A call that starts behind a card's back is not in its snapshot.
Unseen == \E c \in Cards : card[c].at = "flushing" /\ card[c].kind # "upload"

\* `tool.execution_start`
ToolStart(t) ==
    /\ turn = "running" /\ tool[t] = "new"
    /\ Applied(Append(Close(items), Item("tool", t, 1)))
    /\ carried' = carried \cup {t}
    /\ tool' = [tool EXCEPT ![t] = IF Unseen THEN "beyond" ELSE "running"]
    /\ UNCHANGED lastTodos

\* `tool.execution_complete`: of a call this renderer has not seen start, only
\* what was carried is known.
ToolComplete(t) ==
    /\ turn = "running" /\ tool[t] \in {"running", "sealed", "beyond"}
    /\ Applied(IF At(items, "tool", t) # {}
               THEN [i \in DOMAIN items |-> [Close(items)[i] EXCEPT !.v = IF i \in At(items, "tool", t) THEN 2 ELSE @]]
               ELSE Append(Close(items), [Item("tool", t, 2) EXCEPT !.named = t \in carried]))
    /\ carried' = carried \ {t}
    /\ tool' = [tool EXCEPT ![t] = "done"]
    /\ UNCHANGED lastTodos

\* `addTimelineNotice`, of a `session.error` and others.
Noticed ==
    /\ turn = "running"
    /\ Applied(WithStatus(items, Item("notice", 0, 1)))
    /\ UNCHANGED <<tool, carried, lastTodos>>

\* `postAudit`: the line before, when it says the same, is counted up.
Audited ==
    LET before == StatusIndex(items) - 1
    IN  /\ turn = "running"
        /\ Applied(IF before > 0 /\ items[before].kind = "audit"
                   THEN [i \in DOMAIN items |-> [Close(items)[i] EXCEPT !.v = IF i = before THEN @ + 1 ELSE @]]
                   ELSE WithStatus(items, Item("audit", 0, 1)))
        /\ UNCHANGED <<tool, carried, lastTodos>>

\* The renderer is still that of an earlier block.
Leftover == born # epoch

\* `refreshTodos`: what changed is updated in place, or taken away when empty.
TodosRefreshed(rendered) ==
    LET todos == At(items, "todos", 0)
    IN  /\ begun > 0 /\ turn # "ended" /\ (EarlyTodos \/ ~Leftover)
        /\ rendered # lastTodos /\ lastTodos' = rendered
        /\ Applied(CASE rendered = 0 /\ todos # {} -> RemoveAt(items, Min(todos))
                     [] rendered = 0 /\ todos = {} -> items
                     [] rendered > 0 /\ todos # {} ->
                            [i \in DOMAIN items |-> [Close(items)[i] EXCEPT !.v = IF i \in todos THEN rendered ELSE @]]
                     [] rendered > 0 /\ todos = {} -> WithStatus(items, Item("todos", 0, rendered)))
        /\ UNCHANGED <<tool, carried>>

-----------------------------------------------------------------------------
(* Turns and cards.                                                        *)

\* `runTurn` of app.ts resets the transport, then downloads images.
TurnBegins ==
    /\ turn = "idle" /\ begun < MaxTurns
    /\ turn' = "preparing" /\ begun' = begun + 1
    /\ Reset
    /\ UNCHANGED <<tool, events, renderer, chain, discord, card, blip>>

\* `send` starts a renderer of its own; or nothing is sent after all.
RendererStarts ==
    /\ turn = "preparing" /\ turn' = "running"
    /\ items' = <<>> /\ born' = epoch /\ carried' = {}
    /\ UNCHANGED <<begun, tool, events, lastTodos, transport, discord, card, late, blip>>

\* Idle, aborted or never sent: the last state is flushed.
FinalFlush ==
    /\ turn \in {"preparing", "running"} /\ turn' = "ending"
    /\ tool' = [t \in Tools |-> IF tool[t] = "new" THEN "new" ELSE "done"]
    /\ Flush("turn")
    /\ UNCHANGED <<begun, events, renderer, discord, card, late, blip>>

\* `beginInteractionCard`, and the same for a file: snapshot, then flush.
CardBegins(c, kind) ==
    /\ turn = "running" /\ card[c].at = "none"
    /\ card' = [card EXCEPT ![c] = [at |-> "flushing", kind |-> kind, tools |-> InFlightTools(items), turn |-> begun]]
    /\ Flush(c)
    /\ UNCHANGED <<agent, renderer, discord, late, blip>>

CardMessage == [card |-> TRUE, epoch |-> epoch, content |-> <<>>, live |-> TRUE, stray |-> FALSE]

\* The card or the file is sent; or that fails, and for some cards a notice says so.
CardPosted(c) ==
    /\ card[c].at = "posting" /\ card' = [card EXCEPT ![c].at = "over"]
    /\ \/ /\ thread' = Append(thread, CardMessage)
          /\ UNCHANGED <<items, transport, faults, late>>
       \/ /\ faults < MaxFaults /\ faults' = faults + 1
          /\ \/ UNCHANGED <<items, transport, late>>
             \/ /\ turn = "running" /\ card[c].kind # "upload"
                /\ Render(WithStatus(items, Item("notice", 0, 1)))
          /\ UNCHANGED thread
    /\ UNCHANGED <<agent, born, carried, lastTodos, msgIds, write, blip>>

\* /end and the shutdown: the entry goes, whatever is being written.
Dispose ==
    /\ turn # "ended" /\ turn' = "ended"
    /\ exists' = FALSE /\ armed' = FALSE /\ latest' = Nil
    /\ UNCHANGED <<begun, tool, events, renderer, epoch, chain, discord, card, late, blip>>

TimerFires ==
    /\ armed
    /\ Flush("timer")
    /\ UNCHANGED <<agent, renderer, discord, card, late, blip>>

-----------------------------------------------------------------------------
(* One write at a time: `doFlush` and `renderChunks`.                      *)

Fails == faults < MaxFaults /\ faults' = faults + 1 /\ blip' = blip \cup {write.epoch}
Works == UNCHANGED <<faults, blip>>

\* The next flush: a stale one returns, another takes the state as it is now.
WriteBegins ==
    /\ write.pc = "none" /\ chain # <<>>
    /\ chain' = Tail(chain)
    /\ IF exists /\ Head(chain).epoch = epoch /\ latest # Nil
       THEN /\ write' = [pc |-> "thread", by |-> Head(chain).by, epoch |-> epoch, chunks |-> Chunks(latest), at |-> 1]
            /\ late' = FALSE /\ blip' = blip \ {epoch}
            /\ UNCHANGED <<turn, tool, card, renderer, exists, epoch, latest, armed>>
       ELSE Resumed(Head(chain).by) /\ UNCHANGED <<write, blip>>
    /\ UNCHANGED <<begun, events, msgIds, thread, faults>>

\* The write waits for Discord; or it is over, and whoever asked for it goes on.
Awaits(pc, k) ==
    /\ write' = [write EXCEPT !.pc = pc, !.at = k]
    /\ UNCHANGED <<agent, renderer, transport, card, late>>
Over ==
    /\ write' = NoWrite
    /\ Resumed(write.by)
    /\ UNCHANGED <<begun, events, chain>>

\* The loop goes on while the block is current; the trim behind it does not ask.
Onward(k, anchors) ==
    \/ k > Len(write.chunks) /\ Len(anchors) > Len(write.chunks) /\ Awaits("trim", k)
    \/ k > Len(write.chunks) /\ Len(anchors) <= Len(write.chunks) /\ Over
    \/ k <= Len(write.chunks) /\ ~StillCurrent /\ Over
    \/ k <= Len(write.chunks) /\ StillCurrent /\ Awaits(IF k \in DOMAIN anchors THEN "fetch" ELSE "send", k)

Anchors == msgIds[write.epoch]
Anchor == Anchors[write.at]
Posted(stray) ==
    Append(thread, [card |-> FALSE, epoch |-> write.epoch, content |-> write.chunks[write.at],
                    live |-> TRUE, stray |-> stray])

ThreadFetched ==
    /\ write.pc = "thread"
    /\ \/ Works /\ (IF StillCurrent THEN Onward(1, Anchors) ELSE Over)
       \/ Fails /\ Over
    /\ UNCHANGED <<msgIds, thread>>

\* Mutant: every failed fetch is taken for a transient one.
AnchorLeft ==
    /\ write.pc = "fetch"
    /\ \/ /\ thread[Anchor].live /\ Works
          /\ IF StillCurrent THEN Awaits("edit", write.at) ELSE Over
       \/ ~thread[Anchor].live /\ Works /\ Onward(write.at + 1, Anchors)
       \/ Fails /\ Onward(write.at + 1, Anchors)
    /\ UNCHANGED <<msgIds, thread>>

\* An anchor that was deleted is posted anew, one that cannot be had is left.
AnchorFetched ==
    /\ write.pc = "fetch"
    /\ \/ /\ thread[Anchor].live /\ Works
          /\ IF StillCurrent THEN Awaits("edit", write.at) ELSE Over
       \/ ~thread[Anchor].live /\ Works /\ Awaits("send", write.at)
       \/ Fails /\ Onward(write.at + 1, Anchors)
    /\ UNCHANGED <<msgIds, thread>>

\* A failed edit may have been made.
Edited ==
    LET edited == [thread EXCEPT ![Anchor].content = write.chunks[write.at]]
    IN  /\ write.pc = "edit"
        /\ \/ thread[Anchor].live /\ Works /\ thread' = edited /\ Onward(write.at + 1, Anchors)
           \/ ~thread[Anchor].live /\ Works /\ UNCHANGED thread /\ Awaits("send", write.at)
           \/ Fails /\ thread' \in {thread, edited} /\ Onward(write.at + 1, Anchors)
        /\ UNCHANGED msgIds

\* What arrives in a block that is over is deleted; a send that fails ends the
\* write, and may have been made.
MessageSent ==
    /\ write.pc = "send"
    /\ \/ /\ Works /\ thread' = Posted(FALSE)
          /\ IF StillCurrent
             THEN LET anchors == [k \in DOMAIN Anchors \cup {write.at} |->
                                    IF k = write.at THEN Len(thread) + 1 ELSE Anchors[k]]
                  IN  msgIds' = [msgIds EXCEPT ![write.epoch] = anchors] /\ Onward(write.at + 1, anchors)
             ELSE UNCHANGED msgIds /\ Awaits("late", write.at)
       \/ Fails /\ thread' \in {thread, Posted(TRUE)} /\ UNCHANGED msgIds /\ Over

\* The late message is the last one that block has posted.
LateMessage == Max({i \in DOMAIN thread : ~thread[i].card /\ thread[i].epoch = write.epoch})

LateDeleted ==
    /\ write.pc = "late" /\ Over
    /\ \/ Works /\ thread' = [thread EXCEPT ![LateMessage].live = FALSE]
       \/ Fails /\ thread' = [thread EXCEPT ![LateMessage].stray = TRUE]
    /\ UNCHANGED msgIds

\* Surplus anchors go from the end, and are kept when that fails.
Trimmed ==
    /\ write.pc = "trim"
    /\ \/ /\ Works
          /\ thread' = [thread EXCEPT ![Last(Anchors)].live = FALSE]
          /\ msgIds' = [msgIds EXCEPT ![write.epoch] = Front(@)]
          /\ Onward(write.at, Front(Anchors))
       \/ Fails /\ Over /\ UNCHANGED <<msgIds, thread>>

Write == ThreadFetched \/ AnchorFetched \/ Edited \/ MessageSent \/ LateDeleted \/ Trimmed

\* Somebody deletes a message in Discord.
MessageDeleted(i) ==
    /\ ~thread[i].card /\ thread[i].live
    /\ faults < MaxFaults /\ faults' = faults + 1 /\ blip' = blip \cup {thread[i].epoch}
    /\ thread' = [thread EXCEPT ![i].live = FALSE]
    /\ UNCHANGED <<agent, renderer, transport, card, late, msgIds, write>>

-----------------------------------------------------------------------------
TimelineNext ==
    \/ Delta \/ Reasoning \/ Noticed \/ Audited
    \/ \E rendered \in Todos : TodosRefreshed(rendered)
    \/ \E v \in {0, 1, MaxText} : Answer(v)
    \/ \E t \in Tools : ToolStart(t) \/ ToolComplete(t)
    \/ TurnBegins \/ RendererStarts \/ FinalFlush \/ Dispose \/ TimerFires
    \/ \E c \in Cards : CardPosted(c) \/ \E kind \in Kinds : CardBegins(c, kind)
    \/ WriteBegins \/ Write
    \/ \E i \in DOMAIN thread : MessageDeleted(i)

TimelineSpec == TimelineInit /\ [][TimelineNext]_timelineVars

-----------------------------------------------------------------------------
(* Properties.                                                             *)

\* What these messages show of a block with these anchors is this state: one
\* message for each chunk, and no other.
Shows(messages, anchors, e, s) ==
    LET chunks == Chunks(s)
        shown == {i \in DOMAIN messages : ~messages[i].card /\ messages[i].epoch = e
                                           /\ messages[i].live /\ ~messages[i].stray}
    IN  /\ Len(anchors) = Len(chunks) /\ shown = Range(anchors)
        /\ \A k \in DOMAIN chunks : messages[anchors[k]].content = chunks[k]

\* What this block's renderer has made of the events so far.
Rendered == IF born = epoch THEN items ELSE <<>>

\* Blocks stay apart in the thread: no message of a block stands below the
\* card that sealed it, or shows text of another block, but for one that is
\* being deleted or whose deletion Discord refused.
BlocksKeepApart ==
    \A i \in DOMAIN thread :
        thread[i].live /\ ~thread[i].card /\ ~thread[i].stray
            => /\ \A j \in 1 .. i - 1 : thread[j].card /\ thread[j].epoch > thread[i].epoch
                      => write.pc = "late" /\ i = LateMessage
               /\ \A k \in DOMAIN thread[i].content :
                      thread[i].content[k].kind = "text" => thread[i].content[k].id = thread[i].epoch

\* A completed call is shown under its name, on either side of the card that
\* its start was sealed above. (Set apart: a call that starts while a card
\* waits for its flush, and one that outlives a second card.)
ToolsAreNamed ==
    [][\A t \in Tools : tool[t] \in {"running", "sealed"} /\ tool'[t] = "done" /\ turn' = "running"
            => \E i \in DOMAIN items' :
                   items'[i].kind = "tool" /\ items'[i].id = t /\ items'[i].v = 2 /\ items'[i].named]_timelineVars

\* What a card or the end of a turn has waited for.
Flushed ==
    \/ turn = "ending" /\ turn' = "idle"
    \/ \E c \in Cards : card[c].at = "flushing" /\ card'[c].at = "posting"

\* "The final state is always flushed": whatever was rendered is on show when no
\* write is planned or under way any more, and in a block that is sealed or whose
\* turn is over, unless Discord failed the last write; or, for the second, unless
\* something came while the flush was under way.
OutputAppears ==
    /\ [](exists /\ ~armed /\ chain = <<>> /\ write = NoWrite
            => epoch \in blip \/ Shows(thread, msgIds[epoch], epoch, Rendered))
    /\ [][Flushed /\ exists /\ ~late
            => epoch \in blip' \/ Shows(thread', msgIds'[epoch], epoch, Rendered)]_timelineVars
=============================================================================
