----------------------------- MODULE ContextView -----------------------------
(***************************************************************************)
(* sdk/context: what of a conversation's history the LLM is shown.         *)
(*                                                                         *)
(* view/view.py replays the history, applies its condensations and then    *)
(* enforces the four properties of view/properties/; the condenser         *)
(* (condenser/llm_summarizing_condenser.py) forgets a stretch of the view  *)
(* between two manipulation indices, which each property restricts.  The   *)
(* history grows as agent/agent.py and the conversation let it grow.       *)
(*                                                                         *)
(* An event's ID is its place in the history; the summary that the         *)
(* condensation at place i brings has the ID -i.  A view is a sequence of  *)
(* IDs.  An index of the view is the number of events before it.           *)
(***************************************************************************)
EXTENDS Integers, Sequences, FiniteSets, SequencesExt, FiniteSetsExt

CONSTANTS MaxSize,      \* LLMSummarizingCondenser.max_size
          KeepFirst,    \* keep_first
          MinProgress,  \* minimum_progress, in percent
          MaxBatch,     \* bound: tool calls of one response
          MaxRepeats,   \* bound: second observations of a call
          MaxLog        \* bound: events of the history

ASSUME CondenserAssumption == /\ {MaxSize, KeepFirst, MinProgress} \subseteq Nat
                              /\ MaxSize \div 2 - KeepFirst - 1 > 0
                              /\ MinProgress \in 1..99

ASSUME BoundsAssumption == {MaxBatch, MaxRepeats, MaxLog} \subseteq Nat

VARIABLES log,          \* state.events
          events,       \* View.events once the history is replayed
          view          \* and once the properties are enforced: what
                        \*   View.from_events() gives for the history

vars == <<log, events, view>>

Kind(id) == IF id < 0 THEN "summary" ELSE log[id].kind
Is(id, kind) == Kind(id) = kind
Answers(i) == {o \in DOMAIN log : log[o].kind = "observation" /\ log[o].of = i}
Actions == {i \in DOMAIN log : log[i].kind = "action"}
Batch(resp) == {i \in Actions : log[i].resp = resp}
Thinks(id) == Is(id, "action") /\ log[id].thinking
Calls(id) == Kind(id) \in {"action", "observation"}

\* get_unmatched_actions(): calls that failed validation are not pending.
Pending == {i \in Actions : log[i].valid /\ Answers(i) = {}}

----------------------------------------------------------------------------
\* unhandled_condensation_request
Requested == \E r \in DOMAIN log :
               /\ log[r].kind = "request"
               /\ \A c \in r + 1..Len(log) : log[c].kind # "condensation"

(* ObservationUniquenessProperty.enforce().                                *)
Repeated(v) ==
  {v[p] : p \in {q \in DOMAIN v :
     /\ Is(v[q], "observation")
     /\ \E f \in 1..q - 1 : /\ Is(v[f], "observation")
                            /\ log[v[f]].of = log[v[q]].of}}

(* BatchAtomicityProperty.enforce().                                       *)
TornBatches(v) ==
  LET shown == ToSet(v)
  IN {id \in shown : Is(id, "action") /\ ~(Batch(log[id].resp) \subseteq shown)}

(* ToolCallMatchingProperty.enforce().                                     *)
Unpaired(v) ==
  LET shown == ToSet(v)
  IN {id \in shown : \/ Is(id, "action") /\ Answers(id) \cap shown = {}
                     \/ Is(id, "observation") /\ log[id].of \notin shown}

(* ToolLoopAtomicityProperty._tool_loops(): the loop that event i begins.  *)
Loop(i) == {j \in i..Len(log) : \A k \in i + 1..j : Calls(k) /\ ~Thinks(k)}

(* ToolLoopAtomicityProperty.enforce().                                    *)
TornLoops(v) ==
  LET shown == ToSet(v)
  IN UNION {Loop(i) \cap shown :
              i \in {j \in DOMAIN log : Thinks(j) /\ ~(Loop(j) \subseteq shown)}}

Drop(v, S) ==
  LET kept[n \in 0..Len(v)] ==
        IF n = 0 THEN << >>
        ELSE IF v[n] \in S THEN kept[n - 1] ELSE Append(kept[n - 1], v[n])
  IN kept[Len(v)]

(* What the first property that objects wants to drop.                     *)
Objection(v) ==
  IF Repeated(v) # {} THEN Repeated(v)
  ELSE IF TornBatches(v) # {} THEN TornBatches(v)
  ELSE IF Unpaired(v) # {} THEN Unpaired(v)
  ELSE TornLoops(v)

\* enforce_properties(), until there is no objection: a round with one drops
\* an event, so there are no more rounds than events.  Mutant: each property
\* once.  (The sets of one element have TLC evaluate each view once.)
MutOnce(v) ==
  CHOOSE w \in {Drop(c, TornLoops(c)) :
     c \in {Drop(b, Unpaired(b)) :
       b \in {Drop(a, TornBatches(a)) : a \in {Drop(v, Repeated(v))}}}} : TRUE
Enforced(v) ==
  LET round[n \in 0..Len(v)] ==
        IF n = 0 THEN v
        ELSE CHOOSE w \in {Drop(u, Objection(u)) : u \in {round[n - 1]}} : TRUE
  IN round[Len(v)]

----------------------------------------------------------------------------
(* BatchAtomicityProperty.manipulation_indices().                          *)
BetweenCalls ==
  {k \in 1..Len(view) - 1 : /\ Is(view[k], "action")
                            /\ Is(view[k + 1], "action")
                            /\ log[view[k]].resp = log[view[k + 1]].resp}

(* ToolCallMatchingProperty.manipulation_indices().                        *)
WhilePending ==
  {k \in 1..Len(view) :
     \E p \in 1..k : /\ Is(view[p], "action")
                     /\ \A q \in 1..k : view[q] \notin Answers(view[p])}

\* ToolLoopAtomicityProperty.manipulation_indices().  Mutant: the loop ends
\* with the response that began it.
MutShortLoop == {}
InLoop ==
  {k \in 1..Len(view) - 1 :
     /\ Calls(view[k + 1]) /\ ~Thinks(view[k + 1])
     /\ \E p \in 1..k : Thinks(view[p]) /\ \A q \in p..k : Calls(view[q])}

ManipulationIndices ==
  (0..Len(view)) \ (BetweenCalls \union WhilePending \union InLoop)

\* find_next(); None stands for its ValueError.
None == -1
FindNext(threshold) ==
  LET S == {k \in ManipulationIndices : k >= threshold}
  IN IF S = {} THEN None ELSE Min(S)

----------------------------------------------------------------------------
(* get_condensation_reasons().  Tokens are not counted in the model: cut   *)
(* is Fits, or, if there are too many, the number of events that may stay. *)
Fits == -1
Cuts == {Fits} \union 0..Max({0, Len(view) - KeepFirst - 1})

Reasons(cut) == {r \in {"request", "events", "tokens"} :
                   \/ r = "request" /\ Requested
                   \/ r = "events" /\ Len(view) > MaxSize
                   \/ r = "tokens" /\ cut # Fits}

\* suffix_events_to_keep
ToKeep(reasons, cut) ==
  Min({t \in {Len(view) \div 2 - KeepFirst - 1} : "request" \in reasons}
      \union {t \in {MaxSize \div 2 - KeepFirst - 1} : "events" \in reasons}
      \union {t \in {cut} : "tokens" \in reasons})

\* The check of minimum_progress.  Mutant: none.
MutAnyProgress(n) == n > 0
Enough(n) == n > 0 /\ n * 100 >= Len(view) * MinProgress

\* summary_offset.  Mutant: where the forgotten events end.
MutAtTheEnd(start, end) == end
Offset(start, end) == start

(* _get_forgotten_events() and get_condensation(): what can be forgotten   *)
(* for these reasons, or nothing.                                          *)
Forgettable(reasons, cut) ==
  LET start == FindNext(KeepFirst)
      end == FindNext(Len(view) - ToKeep(reasons, cut))
  IN IF start # None /\ end # None /\ Enough(end - start)
     THEN {[forgets |-> ToSet(SubSeq(view, start + 1, end)),
            offset |-> Offset(start, end)]}
     ELSE {}

----------------------------------------------------------------------------
Room(n) == Len(log) + n <= MaxLog

\* LLMConvertibleEvent
Shown(e) == e.kind \in {"message", "action", "observation"}

(* append_event() of events that are no condensations, and                 *)
(* enforce_properties().                                                   *)
Extend(es) ==
  /\ Room(Len(es))
  /\ log' = log \o es
  /\ events' = events \o Drop([k \in DOMAIN es |-> Len(log) + k],
                             {Len(log) + k : k \in {j \in DOMAIN es : ~Shown(es[j])}})
  /\ view' = Enforced(events)'

(* append_event() of a condensation c, with or without a summary, and      *)
(* enforce_properties().  list.insert() takes an offset beyond the end for *)
(* the end.                                                                *)
Apply(c, summary) ==
  LET kept == Drop(events, c.forgets)
      at == Min({c.offset, Len(kept)})
  IN /\ Room(1)
     /\ log' = Append(log, [kind |-> "condensation", forgets |-> c.forgets])
     /\ events' = IF summary THEN InsertAt(kept, at + 1, - Len(log')) ELSE kept
     /\ view' = Enforced(events)'

Init == /\ log = << [kind |-> "message"] >>
        /\ events = <<1>>
        /\ view = <<1>>

(* A message of the user or of the agent, or an error that it is told.     *)
Message == Extend(<< [kind |-> "message"] >>)

(* Events that the LLM is not shown: a pause, an interrupt, a hook's run.  *)
Other == Extend(<< [kind |-> "other"] >>)

(* condense(), or the LLM says that the history is too long or malformed.  *)
Request == Extend(<< [kind |-> "request"] >>)

(* condense() of RollingCondenser at the start of a step.  The summary may *)
(* be missing: the LLM answered without text.                              *)
Condense ==
  \E cut \in Cuts, summary \in BOOLEAN :
    /\ Pending = {}
    /\ Reasons(cut) # {}
    /\ \E c \in Forgettable(Reasons(cut), cut) : Apply(c, summary)

(* hard_context_reset(): a request, but nothing that can be forgotten.     *)
HardReset ==
  \E cut \in Cuts, summary \in BOOLEAN :
    /\ Pending = {}
    /\ "request" \in Reasons(cut)
    /\ Forgettable(Reasons(cut), cut) = {}
    /\ view # << >>
    /\ Apply([forgets |-> ToSet(view), offset |-> 0], summary)

\* There is no reason to condense, or only ones that can wait.
MayWait == \E cut \in Cuts :
             /\ "request" \notin Reasons(cut)
             /\ Reasons(cut) # {} => Forgettable(Reasons(cut), cut) = {}

(* The events of a response with tool calls: a call that is not valid gets *)
(* its error at once, before the next call.                                *)
Emitted(valid, thinking) ==
  LET first == Len(log) + 1
      Call(es, ok) ==
        es \o << [kind |-> "action", resp |-> first, valid |-> ok,
                  thinking |-> thinking /\ es = << >>] >>
           \o (IF ok THEN << >>
               ELSE << [kind |-> "observation", of |-> first + Len(es)] >>)
      emitted[n \in 0..Len(valid)] ==
        IF n = 0 THEN << >> ELSE Call(emitted[n - 1], valid[n])
  IN emitted[Len(valid)]

(* The agent's step calls the LLM, which answers with tool calls.          *)
Respond ==
  /\ Pending = {}
  /\ MayWait
  /\ \E n \in 1..MaxBatch : \E valid \in [1..n -> BOOLEAN], thinking \in BOOLEAN :
       \E es \in {Emitted(valid, thinking)} : Extend(es)

(* The next call is executed, rejected or given up: they are answered in   *)
(* the order of the calls.                                                 *)
Observe == /\ Pending # {}
           /\ Extend(<< [kind |-> "observation", of |-> Min(Pending)] >>)

Repeats == {o \in DOMAIN log : /\ log[o].kind = "observation"
                               /\ \E f \in 1..o - 1 : f \in Answers(log[o].of)}

(* A call that was given up after a restart, or rejected while it was      *)
(* under way, is answered once more.                                       *)
ObserveAgain == /\ Cardinality(Repeats) < MaxRepeats
                /\ \E i \in Actions :
                     /\ log[i].valid /\ Answers(i) # {}
                     /\ Extend(<< [kind |-> "observation", of |-> i] >>)

Next == \/ Message
        \/ Other
        \/ Request
        \/ Condense
        \/ HardReset
        \/ Respond
        \/ Observe
        \/ ObserveAgain

Spec == Init /\ [][Next]_vars

----------------------------------------------------------------------------

\* Every call has one answer, and no answer is between calls of one response.
Orderly == /\ \A i \in Actions : Cardinality(Answers(i)) = 1
           /\ \A i, j \in Actions : log[i].resp = log[j].resp /\ i <= j =>
                \A k \in i..j : log[k].kind # "observation"

\* From a call to its answer the view has what the history has from the one
\* to the other: no summary, and nothing from elsewhere.
NothingInserted ==
  \A p, q \in DOMAIN view : view[q] \in Answers(view[p]) =>
    \A r \in p..q : view[r] \in view[p]..view[q]

(* Each call that the LLM is shown has one answer, which comes later, and  *)
(* responses and tool loops are complete or absent.  As long as the        *)
(* history is orderly, condensation puts nothing between a call and its    *)
(* answer: that comes "in the immediately following user message"          *)
(* (tool_call_matching.py) if the history has no message between the two.  *)
(* A message that is sent while the call waits for the user is shown       *)
(* between them: no property of a view moves or drops it.                  *)
PromptIsCoherent ==
  /\ \A p \in DOMAIN view : Is(view[p], "action") =>
       /\ Cardinality({q \in DOMAIN view : view[q] \in Answers(view[p])}) = 1
       /\ \A q \in DOMAIN view : view[q] \in Answers(view[p]) => q > p
  /\ \A p \in DOMAIN view : Is(view[p], "observation") => log[view[p]].of \in ToSet(view)
  /\ \A i \in Actions \cap ToSet(view) : Batch(log[i].resp) \subseteq ToSet(view)
  /\ TornLoops(view) = {}
  /\ Orderly => NothingInserted

(* "Properties should hold inductively": as long as the history is         *)
(* orderly, condensation at the manipulation indices leaves nothing to     *)
(* enforce, so the LLM is shown all that was not summarised.               *)
NothingIsEnforced == Orderly => view = events

\* The last event that an entry of a view stands for.
Latest(id) ==
  LET summarised[c \in {d \in DOMAIN log : log[d].kind = "condensation"}] ==
        Max({IF f > 0 THEN f ELSE summarised[-f] : f \in log[c].forgets})
  IN IF id > 0 THEN id ELSE summarised[-id]

(* A summary takes the place of what it summarises: the view stays in the  *)
(* order of the history.                                                   *)
Chronological ==
  Orderly => \A p, q \in DOMAIN view :
               p < q => Latest(view[p]) < Latest(view[q])

(* Where the minimum progress is more than one event, a condensation makes *)
(* the view shorter: the agent's steps do not condense for ever.           *)
CondensationShrinks ==
  [][/\ \E c \in DOMAIN log' \ DOMAIN log : log'[c].kind = "condensation"
     /\ Len(view) * MinProgress > 100
     => Len(view') < Len(view)]_vars

(* "The first occurrence wins because the agent has likely already seen    *)
(* it": a second observation of a call does not take away the call and its *)
(* first one.                                                              *)
FirstOccurrenceWins ==
  /\ Pending = {}
  /\ \A i \in DOMAIN log : log[i].kind # "condensation"
  => \A i \in Actions : {i, Min(Answers(i))} \subseteq ToSet(view)
==============================================================================
