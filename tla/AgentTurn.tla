----------------------------- MODULE AgentTurn -----------------------------
(***************************************************************************)
(* One player's turns at its model: the prompt that is rendered from the   *)
(* conversation, the answer or the exception that comes back, the recovery *)
(* from it, the dispatch of the action, the feedback on the answer, the    *)
(* step that is recorded and the turn that joins the conversation.         *)
(* Sizes are in tokens; a frame is one image.                              *)
(***************************************************************************)
EXTENDS Integers, Sequences, FiniteSetsExt

CONSTANTS
  InputTokensLimit,   \* capabilities.usage_limits.input_tokens_limit
  TokensPerImage,     \* capabilities.tokens_per_image
  MaxObservations,    \* capabilities.max_observations_per_request
  Window,             \* capabilities.preserve_last_frame_for_n_turns
  PinnedTokens,       \* instructions, manual and prior episodes
  RequestTokens,      \* text of a request
  ResponseTokens,     \* the sizes a response can have
  Alone,              \* protocol.is_playing_alone
  Defuser,            \* protocol.role = "defuser"
  EnableNobf,         \* capabilities.enable_nobf_generation
  MaxTurns            \* bound: turns of the conversation

\* Variant: the image to spare is forgotten.
BudgetWithoutSpareImage == (4 * InputTokensLimit) \div 5 - MaxObservations * TokensPerImage

\* Twenty per cent of the limit and one image are left for what the last answer and the next
\* request add; the pinned entries and one turn fit the budget.
Budget == (4 * InputTokensLimit) \div 5 - (MaxObservations + 1) * TokensPerImage

ASSUME TurnConstants ==
  /\ {InputTokensLimit, MaxObservations} \subseteq Nat \ {0}
  /\ {TokensPerImage, Window, PinnedTokens, RequestTokens, MaxTurns} \subseteq Nat
  /\ ResponseTokens \subseteq Nat \ {0}
  /\ {Alone, Defuser, EnableNobf} \subseteq BOOLEAN
ASSUME RoomToPlay ==
  /\ \A r \in ResponseTokens :
       5 * (r + RequestTokens) <= InputTokensLimit + 5 * TokensPerImage
  /\ PinnedTokens + RequestTokens + MaxObservations * TokensPerImage <= Budget

VARIABLES
  phase,      \* "waiting" -> "asked" -> "answered" -> "dispatched" -> "waiting"; "failed", "over"
  entries,    \* the turns of the conversation, the pinned entries aside
  _dropped_non_pinned,
  _evaluated_non_pinned,
  feedback,   \* _unpulled_feedback: the errors it names
  request,    \* what the model was asked
  result,     \* the AgentCallResult
  step        \* the last step that was tracked

conversation == <<entries, _dropped_non_pinned, _evaluated_non_pinned>>
vars == <<phase, conversation, feedback, request, result, step>>

Shapes  == {<<>>, <<"request", "response">>}
Entry   == [messages : Shapes, text : Nat, frames : Nat, usage : Nat]
Outputs == {"do_nothing", "send_message", "interact"}
Faults  == {"action_not_present", "action_parsing_failed", "malformed_tag_structure",
            "invalid_som_location", "out_of_bounds_coordinate", "max_output_tokens_exceeded",
            "server_error", "guardrail_violation", "unknown"}

NoRequest == [history |-> <<>>, omitted |-> 0, frames |-> 0, told |-> {}, tokens |-> 0]
NoResult  == [output |-> "do_nothing", errors |-> {}, found |-> {}, messages |-> <<>>,
              text |-> 0, usage |-> 0]
NoStep    == [history |-> <<>>, omitted |-> 0, output |-> "do_nothing", errors |-> {},
              found |-> {}]

TypeOK ==
  /\ phase \in {"waiting", "asked", "answered", "dispatched", "failed", "over"}
  /\ entries \in Seq(Entry) /\ Len(entries) <= MaxTurns
  /\ _dropped_non_pinned \in 0..Len(entries) /\ _evaluated_non_pinned \in 0..Len(entries)
  /\ feedback \subseteq Faults
  /\ request \in [history : Seq(Entry), omitted : Nat, frames : 0..MaxObservations,
                  told : SUBSET Faults, tokens : Nat]
  /\ result \in [output : Outputs, errors : SUBSET Faults, found : SUBSET Faults,
                 messages : Shapes, text : Nat, usage : Nat]
  /\ step \in [history : Seq(Entry), omitted : Nat, output : Outputs,
               errors : SUBSET Faults, found : SUBSET Faults]

Init ==
  /\ phase = "waiting"
  /\ entries = <<>> /\ _dropped_non_pinned = 0 /\ _evaluated_non_pinned = 0
  /\ feedback = {} /\ request = NoRequest /\ result = NoResult /\ step = NoStep
-----------------------------------------------------------------------------
(***************************************************************************)
(* The conversation.                                                       *)
(***************************************************************************)
\* partition_non_pinned_by_window.
InWindow(es) == {i \in DOMAIN es : i > Len(es) - Window}

\* Inside the window a request keeps its last frame, older ones keep none.
Windowed(es) ==
  [i \in DOMAIN es |->
     [es[i] EXCEPT !.frames = IF i \in InWindow(es) /\ @ > 0 THEN 1 ELSE 0]]

Tokens(e) == e.text + e.frames * TokensPerImage

TokensOf(es) ==
  LET Upto[n \in 0..Len(es)] == IF n = 0 THEN 0 ELSE Upto[n - 1] + Tokens(es[n])
  IN  Upto[Len(es)]

drop_oldest_non_pinned(es, count) == SubSeq(es, count + 1, Len(es))

\* The measure is that of the last prompt, from which the omitted turns were already gone.
turns_to_drop(es, omitted) ==
  LET active   == drop_oldest_non_pinned(es, omitted)
      measured == active[Len(active)].usage
      Freed(n) == TokensOf(SubSeq(drop_oldest_non_pinned(Windowed(es), omitted), 1, n))
      enough   == {n \in 1..Len(active) - 1 : measured - Freed(n) <= Budget}
  IN IF active = <<>> \/ measured = 0 \/ measured <= Budget THEN omitted
     ELSE omitted + (IF enough # {} THEN Min(enough) ELSE Len(active) - 1)

\* Variant: the measure is evaluated at each render.
RefreshAlways ==
  /\ _dropped_non_pinned' = turns_to_drop(entries, _dropped_non_pinned)
  /\ _evaluated_non_pinned' = Len(entries)

_refresh_truncation ==
  /\ _dropped_non_pinned' = IF Len(entries) = _evaluated_non_pinned THEN _dropped_non_pinned
                            ELSE turns_to_drop(entries, _dropped_non_pinned)
  /\ _evaluated_non_pinned' = Len(entries)

\* The history once the truncation is refreshed.
render == Windowed(drop_oldest_non_pinned(entries, _dropped_non_pinned'))

\* Variant: the window is taken before the turn has joined.
JoinedLate(turn) ==
  Append([i \in DOMAIN entries |->
            IF i \in InWindow(entries) THEN entries[i] ELSE [entries[i] EXCEPT !.frames = 0]],
         turn)

\* record, then evict_observations.
Joined(turn) ==
  LET es == Append(entries, turn)
  IN [i \in DOMAIN es |-> IF i \in InWindow(es) THEN es[i] ELSE [es[i] EXCEPT !.frames = 0]]
-----------------------------------------------------------------------------
(***************************************************************************)
(* Exceptions and the recovery from them.                                  *)
(***************************************************************************)
AgentRunErrors        == {"AgentRunError", "ModelHTTPError", "UnexpectedModelBehavior"}
InvalidResponseErrors == {"ExceededMaxOutputTokensError", "InvalidOutputFormatError",
                          "ReasoningParsingError"}

\* What asking can raise: class, what the message says, whether a response was captured and
\* whether that response ended at its length.
Raised(class, says, responded, cut) ==
  [class |-> class, says |-> says, responded |-> responded, cut |-> cut]

Exceptions ==
  {Raised("AgentRunError", "invalid prompt", FALSE, FALSE),
   Raised("ModelHTTPError", "invalid prompt", FALSE, FALSE),
   Raised("ModelHTTPError", "quota", FALSE, FALSE),
   Raised("ModelHTTPError", "", FALSE, FALSE),
   Raised("RetryError", "", FALSE, FALSE),
   Raised("GoogleServerError", "", FALSE, FALSE),
   Raised("HTTPStatusError", "", FALSE, FALSE),
   Raised("UnexpectedModelBehavior", "token limit exceeded", TRUE, FALSE),
   Raised("UnexpectedModelBehavior", "exceeded maximum retries", TRUE, FALSE),
   Raised("UnexpectedModelBehavior", "exceeded maximum retries", TRUE, TRUE),
   Raised("UnexpectedModelBehavior", "", TRUE, FALSE),
   Raised("ExceededMaxOutputTokensError", "", TRUE, TRUE),
   Raised("InvalidOutputFormatError", "", TRUE, FALSE),
   Raised("ReasoningParsingError", "", TRUE, FALSE),
   Raised("Exception", "", FALSE, FALSE)}

\* A strategy: the error it reports and which exceptions it can handle.
Strategy(error, handles) == [error |-> error, handles |-> handles]
OfClasses(classes) == {e \in Exceptions : e.class \in classes}

GuardrailViolationRecovery ==
  Strategy("guardrail_violation",
           {e \in OfClasses(AgentRunErrors) : e.says = "invalid prompt"})

RequestQuotaExceededRecovery ==
  Strategy("server_error", {e \in OfClasses({"ModelHTTPError"}) : e.says = "quota"})

ExhaustedRetriesRecovery == Strategy("server_error", OfClasses({"RetryError"}))

ExceededMaxOutputTokensRecovery ==
  Strategy("max_output_tokens_exceeded",
           {e \in Exceptions :
              \/ e.cut
              \/ e.class = "UnexpectedModelBehavior" /\ e.says = "token limit exceeded"
              \/ e.class = "ExceededMaxOutputTokensError"})

FailedReasoningParserRecovery ==
  Strategy("action_not_present", OfClasses({"ReasoningParsingError"}))

InvalidFormatRecovery ==
  Strategy("action_parsing_failed",
           {e \in Exceptions :
              \/ /\ e.class = "UnexpectedModelBehavior"
                 /\ e.says = "exceeded maximum retries" /\ ~e.cut
              \/ e.class = "InvalidOutputFormatError"})

GoogleServerErrorRecovery == Strategy("server_error", OfClasses({"GoogleServerError"}))

SomethingNewWentWrongRecovery ==
  Strategy("unknown", OfClasses(AgentRunErrors \cup {"HTTPStatusError"}))

\* DEFAULT_RECOVERY_STRATEGIES
Strategies ==
  <<GuardrailViolationRecovery, RequestQuotaExceededRecovery, ExhaustedRetriesRecovery,
    ExceededMaxOutputTokensRecovery, FailedReasoningParserRecovery, InvalidFormatRecovery,
    GoogleServerErrorRecovery, SomethingNewWentWrongRecovery>>

CanHandle(e) == {i \in DOMAIN Strategies : e \in Strategies[i].handles}

\* Only a refused request stays out of the history; the others are given an empty response if
\* none was captured.  A response that was captured is counted.
Recovered(e, size) ==
  LET strategy == Strategies[Min(CanHandle(e))]
      refused  == strategy = GuardrailViolationRecovery
  IN [output   |-> IF refused THEN "send_message" ELSE "do_nothing",
      errors   |-> {strategy.error},
      found    |-> {strategy.error},
      messages |-> IF refused THEN <<>> ELSE <<"request", "response">>,
      text     |-> IF refused THEN 0 ELSE RequestTokens + (IF e.responded THEN size ELSE 0),
      usage    |-> IF e.responded THEN request.tokens ELSE 0]

\* The chain of a reflection: a malformed answer is kept whole, what else the default chain
\* handles is an "<error>".
ReflectionHandles(e) == e.class \in InvalidResponseErrors \/ CanHandle(e) # {}
-----------------------------------------------------------------------------
(***************************************************************************)
(* A turn.                                                                 *)
(***************************************************************************)
\* One frame, or as many as allowed for a module that blinks.
Frames == IF Defuser THEN {1, MaxObservations} ELSE {0}

\* Up to agent.run.  Feedback is pulled with the messages, which a player that plays alone
\* does not read.
Ask(frames) ==
  /\ phase = "waiting" /\ Len(entries) < MaxTurns
  /\ _refresh_truncation
  /\ request' = [history |-> render, omitted |-> _dropped_non_pinned', frames |-> frames,
                 told |-> IF Alone THEN {} ELSE feedback,
                 tokens |-> PinnedTokens + TokensOf(render) + RequestTokens
                            + frames * TokensPerImage]
  /\ feedback' = {} /\ phase' = "asked"
  /\ UNCHANGED <<entries, result, step>>

\* A prompt over the limit is refused by the provider before it answers.
CanRespond == request.tokens <= InputTokensLimit

AllowedOutputs ==
  {"do_nothing"} \cup (IF Alone THEN {} ELSE {"send_message"})
                 \cup (IF Defuser THEN {"interact"} ELSE {})

\* The answer has an action; the parser may have found faults in its form.
Answer(output, size, found) ==
  /\ phase = "asked" /\ CanRespond
  /\ result' = [output |-> output, errors |-> found, found |-> found,
                messages |-> <<"request", "response">>, text |-> RequestTokens + size,
                usage |-> request.tokens]
  /\ phase' = "answered"
  /\ UNCHANGED <<conversation, feedback, request, step>>

Recover(e, size) ==
  /\ phase = "asked" /\ (e.responded => CanRespond)
  /\ CanHandle(e) # {}
  /\ result' = Recovered(e, size) /\ phase' = "answered"
  /\ UNCHANGED <<conversation, feedback, request, step>>

\* What no strategy handles leaves the turn.
Raise(e) ==
  /\ phase = "asked" /\ (e.responded => CanRespond)
  /\ CanHandle(e) = {}
  /\ phase' = "failed"
  /\ UNCHANGED <<conversation, feedback, request, result, step>>

\* The result of a game action names no error; one whose location is invalid does nothing and
\* names only that.
_send_game_action(fault) ==
  result' = IF fault = {} THEN [result EXCEPT !.errors = {}]
            ELSE [result EXCEPT !.output = "do_nothing", !.errors = fault,
                                !.found = @ \cup fault]

Locations == {{}, {"invalid_som_location"}, {"out_of_bounds_coordinate"}}

\* Variant: the errors of the answer are dropped with its location.
DoNothingSilently(fault) ==
  /\ phase = "answered" /\ phase' = "dispatched"
  /\ IF result.output = "interact"
     THEN result' = [result EXCEPT !.output = IF fault = {} THEN @ ELSE "do_nothing",
                                   !.errors = {}, !.found = @ \cup fault]
     ELSE fault = {} /\ UNCHANGED result
  /\ UNCHANGED <<conversation, feedback, request, step>>

Dispatch(fault) ==
  /\ phase = "answered" /\ phase' = "dispatched"
  /\ IF result.output = "interact" THEN _send_game_action(fault)
                                   ELSE fault = {} /\ UNCHANGED result
  /\ UNCHANGED <<conversation, feedback, request, step>>

\* The game or the broker does not take it.
DispatchFails ==
  /\ phase = "answered" /\ result.output # "do_nothing" /\ phase' = "failed"
  /\ UNCHANGED <<conversation, feedback, request, result, step>>

\* NaughtyOutputBehaviourFeedbackGenerator has no words for a refusal.
Explained == Faults \ {"guardrail_violation"}

\* generate_feedbacks, where it is enabled, and update_metrics: the step is tracked with the
\* prompt as it is rendered now, then the turn joins the conversation.
Finish ==
  /\ phase = "dispatched" /\ phase' = "waiting"
  /\ feedback' = IF EnableNobf THEN feedback \cup (result.errors \cap Explained) ELSE feedback
  /\ _refresh_truncation
  /\ step' = [history |-> render, omitted |-> _dropped_non_pinned', output |-> result.output,
              errors |-> result.errors, found |-> result.found]
  /\ entries' = Joined([messages |-> result.messages, text |-> result.text,
                        frames |-> IF result.messages = <<>> THEN 0 ELSE request.frames,
                        usage |-> IF result.messages = <<>> THEN 0 ELSE result.usage])
  /\ result' = NoResult
  /\ UNCHANGED request

\* perform_reflection closes the game: its answer is tracked and joins nothing.
Reflect ==
  /\ phase = "waiting" /\ _refresh_truncation
  /\ \/ /\ phase' = "over"
        /\ step' = [history |-> render, omitted |-> _dropped_non_pinned',
                    output |-> "send_message", errors |-> {}, found |-> {}]
     \/ /\ \E e \in Exceptions : ~ReflectionHandles(e)
        /\ phase' = "failed" /\ UNCHANGED step
  /\ UNCHANGED <<entries, feedback, request, result>>

Next ==
  \/ \E frames \in Frames : Ask(frames)
  \/ \E output \in AllowedOutputs, size \in ResponseTokens,
        found \in {{}, {"malformed_tag_structure"}} : Answer(output, size, found)
  \/ \E e \in Exceptions, size \in ResponseTokens : Recover(e, size)
  \/ \E e \in Exceptions : Raise(e)
  \/ \E fault \in Locations : Dispatch(fault)
  \/ DispatchFails
  \/ Finish
  \/ Reflect

Spec == Init /\ [][Next]_vars
-----------------------------------------------------------------------------
(***************************************************************************)
(* Properties.                                                             *)
(***************************************************************************)
\* Truncation does what its reservation is for: after a turn whose size the provider measured,
\* whatever was dropped before and however long that answer was, the next prompt is within
\* the model's limit.  (A turn that was not measured drops nothing.)
PromptFits ==
  phase = "asked" /\ entries # <<>> /\ entries[Len(entries)].usage > 0
    => request.tokens <= InputTokensLimit

\* The step that is recorded holds the prompt the model was sent, and the number of turns that
\* were missing from it: the history is rendered once for the request and again for the step,
\* and the truncation may not move in between (_evaluated_non_pinned).
RecordedAsSent ==
  phase = "waiting" =>
    step.history = request.history /\ step.omitted = request.omitted

\* The frames of the last turns are there to be shown and no older frame stays in memory,
\* though they are taken out when a turn joins and looked up when the next is asked.
FramesInWindow ==
  phase = "waiting" /\ Defuser =>
    \A i \in DOMAIN entries :
      entries[i].frames > 0 <=> i \in InWindow(entries) /\ entries[i].messages # <<>>

\* A player in a pair whose turn was skipped is told why when it is asked again, where
\* feedback is enabled.
Skipping == step.found \ {"malformed_tag_structure"}
SkipIsExplained ==
  phase = "asked" /\ ~Alone /\ EnableNobf /\ step.output = "do_nothing"
    => Skipping \subseteq request.told
=============================================================================
