--------------------------- MODULE AgentTurnProofs ---------------------------
(***************************************************************************)
(* What a player's records and feedback say of its turns, which frames it  *)
(* keeps and what its prompts take, for any limits, windows and numbers of *)
(* turns; and, below, what the parser of the model's answers makes of them *)
(* at any length.  The two components share no state: each theorem is      *)
(* about the specification of one.                                         *)
(***************************************************************************)
EXTENDS AgentTurn, ReactParser, TLAPS, WellFoundedInduction, FiniteSetTheorems, SequenceTheorems

InTurn == phase \in {"asked", "answered", "dispatched"}
-----------------------------------------------------------------------------
(* Numbers. *)

LEMMA Least ==
    ASSUME NEW T, T \subseteq Nat, T # {}
    PROVE  \E x \in T : \A y \in T : ~(y < x)
<1> DEFINE R == {p \in Nat \X Nat : p[1] < p[2]}
<1>1. IsWellFoundedOn(R, Nat)
  BY NatLessThanWellFounded DEF OpToRel
<1> HIDE DEF R
<1>2. PICK x \in T : \A y \in T : <<y, x>> \notin R
  BY <1>1, WFMin
<1>3. ASSUME NEW y \in T
      PROVE  ~(y < x)
  <2>1. <<y, x>> \in Nat \X Nat /\ <<y, x>>[1] = y /\ <<y, x>>[2] = x
    OBVIOUS
  <2> QED
    BY <1>2, <2>1 DEF R
<1> QED
  BY <1>3

\* The smallest of a set of numbers is one of them.
LEMMA MinOf ==
  ASSUME NEW S, S \subseteq Nat, S # {}
  PROVE  Min(S) \in S
<1>1. PICK x \in S : \A y \in S : ~(y < x)
  BY Least
<1>2. \A y \in S : x <= y
  BY <1>1
<1> QED  BY <1>2 DEF Min
-----------------------------------------------------------------------------
(* The record. *)

\* Until a turn is over, the prompt that was sent is what would be rendered again.
AsRendered ==
  InTurn =>
    /\ request.history = Windowed(drop_oldest_non_pinned(entries, _dropped_non_pinned))
    /\ request.omitted = _dropped_non_pinned
    /\ _evaluated_non_pinned = Len(entries)

RecordInv == AsRendered /\ RecordedAsSent

LEMMA RecordKept == RecordInv /\ [Next]_vars => RecordInv'
<1> SUFFICES ASSUME RecordInv, [Next]_vars PROVE RecordInv'
  OBVIOUS
<1> USE DEF RecordInv, AsRendered, RecordedAsSent, InTurn
<1>1. ASSUME NEW frames \in Frames, Ask(frames) PROVE RecordInv'
  BY <1>1 DEF Ask, _refresh_truncation, render, Windowed, drop_oldest_non_pinned, InWindow
<1>2. ASSUME NEW output, NEW size, NEW found, Answer(output, size, found) PROVE RecordInv'
  BY <1>2 DEF Answer, conversation, Windowed, drop_oldest_non_pinned, InWindow
<1>3. ASSUME NEW e, NEW size, Recover(e, size) PROVE RecordInv'
  BY <1>3 DEF Recover, conversation, Windowed, drop_oldest_non_pinned, InWindow
<1>4. CASE (\E e \in Exceptions : Raise(e)) \/ DispatchFails
  BY <1>4 DEF Raise, DispatchFails
<1>5. ASSUME NEW fault, Dispatch(fault) PROVE RecordInv'
  BY <1>5 DEF Dispatch, conversation, Windowed, drop_oldest_non_pinned, InWindow
<1>6. CASE Finish
  <2>1. _dropped_non_pinned' = _dropped_non_pinned
    BY <1>6 DEF Finish, _refresh_truncation
  <2>2. step'.history = request.history /\ step'.omitted = request.omitted
    BY <1>6, <2>1 DEF Finish, render
  <2> QED  BY <1>6, <2>2 DEF Finish
<1>7. CASE Reflect
  BY <1>7 DEF Reflect
<1>8. CASE UNCHANGED vars
  BY <1>8 DEF vars, conversation, Windowed, drop_oldest_non_pinned, InWindow
<1> QED  BY <1>1, <1>2, <1>3, <1>4, <1>5, <1>6, <1>7, <1>8 DEF Next

\* The step recorded for a turn holds the prompt the model was sent, with the number of turns
\* missing from it: nothing between the two renderings moves the truncation.
THEOREM RecordIsPrompt == Spec => []RecordedAsSent
<1>1. Init => RecordInv
  BY DEF Init, RecordInv, AsRendered, RecordedAsSent, InTurn, NoRequest, NoStep
<1> QED  BY <1>1, RecordKept, PTL DEF Spec, RecordInv
-----------------------------------------------------------------------------
(* Frames in memory. *)

IsTurn(e) ==
  /\ e = [messages |-> e.messages, text |-> e.text, frames |-> e.frames, usage |-> e.usage]
  /\ e.frames \in Nat

FramesKept ==
  Defuser =>
    \A i \in DOMAIN entries :
      entries[i].frames > 0 <=> i \in InWindow(entries) /\ entries[i].messages # <<>>

FramesInv ==
  /\ \E S : entries \in Seq(S)
  /\ \A i \in DOMAIN entries : IsTurn(entries[i])
  /\ InTurn => request.frames \in Nat /\ (Defuser => request.frames > 0)
  /\ FramesKept

\* A turn that joins moves the window by one, and takes its frame along if it has a place.
LEMMA JoinKeepsFrames ==
  ASSUME FramesInv, NEW turn, IsTurn(turn), entries' = Joined(turn),
         Defuser => (turn.frames > 0 <=> turn.messages # <<>>)
  PROVE  /\ \E S : entries' \in Seq(S)
         /\ \A i \in DOMAIN entries' : IsTurn(entries'[i])
         /\ FramesKept'
<1> DEFINE es == Append(entries, turn)
           n  == Len(entries)
<1>1. PICK S : entries \in Seq(S)
  BY DEF FramesInv
<1>2. /\ n \in Nat /\ DOMAIN entries = 1..n
      /\ es \in Seq(S \cup {turn}) /\ Len(es) = n + 1 /\ DOMAIN es = 1..(n + 1)
      /\ \A i \in 1..n : es[i] = entries[i]
      /\ es[n + 1] = turn
  <2>1. entries \in Seq(S \cup {turn})
    BY <1>1
  <2> QED  BY <1>1, <2>1
<1> HIDE DEF es
<1>3. entries' = [i \in 1..(n + 1) |-> IF i \in InWindow(es) THEN es[i]
                                      ELSE [es[i] EXCEPT !.frames = 0]]
  BY <1>2 DEF Joined, es
<1>4. entries' \in Seq({entries'[i] : i \in 1..(n + 1)}) /\ Len(entries') = n + 1
      /\ DOMAIN entries' = 1..(n + 1)
  BY <1>2, <1>3
<1>5. ASSUME NEW i \in 1..(n + 1) PROVE IsTurn(es[i])
  BY <1>2, i <= n \/ i = n + 1 DEF FramesInv
<1>6. ASSUME NEW i \in 1..(n + 1)
      PROVE  /\ IsTurn(entries'[i])
             /\ entries'[i].messages = es[i].messages
             /\ entries'[i].frames = IF i \in InWindow(es) THEN es[i].frames ELSE 0
  <2> DEFINE e == es[i]
             without == [messages |-> e.messages, text |-> e.text, frames |-> 0,
                         usage |-> e.usage]
  <2>1. IsTurn(e)
    BY <1>5
  <2>2. [e EXCEPT !.frames = 0] = without
    BY <2>1 DEF IsTurn
  <2>3. IsTurn(without) /\ without.messages = e.messages /\ without.frames = 0
    BY DEF IsTurn
  <2>4. entries'[i] = IF i \in InWindow(es) THEN e ELSE [e EXCEPT !.frames = 0]
    BY <1>3
  <2> HIDE DEF e, without
  <2>5. entries'[i] = IF i \in InWindow(es) THEN e ELSE without
    BY <2>2, <2>4
  <2>6. /\ IsTurn(entries'[i])
        /\ entries'[i].messages = e.messages
        /\ entries'[i].frames = IF i \in InWindow(es) THEN e.frames ELSE 0
    BY <2>1, <2>3, <2>5
  <2> QED  BY <2>6 DEF e
<1>7. ASSUME NEW i \in 1..(n + 1)
      PROVE  /\ i \in InWindow(es) <=> i > n + 1 - Window
             /\ i \in InWindow(entries)' <=> i > n + 1 - Window
             /\ i \in 1..n => (i \in InWindow(entries) <=> i > n - Window)
  <2>1. i \in InWindow(es) <=> i > n + 1 - Window
    BY <1>2, TurnConstants DEF InWindow
  <2>2. i \in InWindow(entries)' <=> i > n + 1 - Window
    BY <1>2, <1>4, TurnConstants DEF InWindow
  <2>3. i \in 1..n => (i \in InWindow(entries) <=> i > n - Window)
    <3>1. DOMAIN entries = 1..n /\ Len(entries) = n
      BY <1>2
    <3>2. InWindow(entries) = {k \in 1..n : k > n - Window}
      BY <3>1 DEF InWindow
    <3> QED  BY <3>2
  <2> QED  BY <2>1, <2>2, <2>3
<1>8. ASSUME Defuser, NEW i \in 1..(n + 1)
      PROVE  entries'[i].frames > 0 <=> i \in InWindow(entries)' /\ entries'[i].messages # <<>>
  <2>1. es[i].frames > 0 /\ i \in InWindow(es) <=> i \in InWindow(es) /\ es[i].messages # <<>>
    <3>1. CASE i = n + 1
      BY <1>2, <1>8, <3>1
    <3>2. CASE i \in 1..n
      <4>1. entries[i].frames > 0 <=> i \in InWindow(entries) /\ entries[i].messages # <<>>
        BY <1>2, <1>8, <3>2 DEF FramesInv, FramesKept
      <4>2. i \in InWindow(es) => i \in InWindow(entries)
        BY <1>2, <1>7, <3>2, TurnConstants
      <4>3. es[i] = entries[i]
        BY <1>2, <3>2
      <4> QED  BY <4>1, <4>2, <4>3
    <3> QED  BY <1>2, <3>1, <3>2
  <2>2. i \in InWindow(es) <=> i \in InWindow(entries)'
    BY <1>7
  <2> QED  BY <1>6, <2>1, <2>2
<1> QED  BY <1>3, <1>4, <1>6, <1>8 DEF FramesKept

LEMMA FramesStep == FramesInv /\ [Next]_vars => FramesInv'
<1> SUFFICES ASSUME FramesInv, [Next]_vars PROVE FramesInv'
  OBVIOUS
<1>1. CASE Finish
  <2> DEFINE turn == [messages |-> result.messages, text |-> result.text,
                      frames |-> IF result.messages = <<>> THEN 0 ELSE request.frames,
                      usage |-> IF result.messages = <<>> THEN 0 ELSE result.usage]
  <2>1. IsTurn(turn) /\ (Defuser => (turn.frames > 0 <=> turn.messages # <<>>))
    BY <1>1 DEF Finish, FramesInv, InTurn, IsTurn
  <2>2. entries' = Joined(turn)
    BY <1>1 DEF Finish
  <2>3. ~InTurn'
    BY <1>1 DEF Finish, InTurn
  <2> HIDE DEF turn
  <2> QED  BY <2>1, <2>2, <2>3, JoinKeepsFrames DEF FramesInv
<1>2. ASSUME UNCHANGED entries, InTurn' => InTurn, UNCHANGED request PROVE FramesInv'
  BY <1>2 DEF FramesInv, FramesKept, InWindow
<1>3. ASSUME NEW frames \in Frames, Ask(frames) PROVE FramesInv'
  <2>1. UNCHANGED entries /\ request'.frames = frames
    BY <1>3 DEF Ask
  <2>2. frames \in Nat /\ (Defuser => frames > 0)
    BY TurnConstants DEF Frames
  <2> QED  BY <2>1, <2>2 DEF FramesInv, FramesKept, InWindow
<1>4. ASSUME NEW output, NEW size, NEW found, Answer(output, size, found) PROVE FramesInv'
  BY <1>2, <1>4 DEF Answer, conversation, InTurn
<1>5. ASSUME NEW e, NEW size, Recover(e, size) PROVE FramesInv'
  BY <1>2, <1>5 DEF Recover, conversation, InTurn
<1>6. CASE (\E e \in Exceptions : Raise(e)) \/ DispatchFails \/ (\E f \in Locations : Dispatch(f))
  BY <1>2, <1>6 DEF Raise, DispatchFails, Dispatch, conversation, InTurn
<1>7. CASE Reflect
  BY <1>2, <1>7 DEF Reflect, InTurn
<1>8. CASE UNCHANGED vars
  BY <1>2, <1>8 DEF vars, conversation, InTurn
<1> QED  BY <1>1, <1>3, <1>4, <1>5, <1>6, <1>7, <1>8 DEF Next

\* Between turns memory holds the frames of the turns in the window that have any, and no
\* other, for any window, although eviction and rendering compute it separately.
THEOREM FramesTheorem == Spec => []FramesInWindow
<1>1. Init => FramesInv
  <2> SUFFICES ASSUME Init PROVE FramesInv
    OBVIOUS
  <2>1. entries \in Seq({}) /\ DOMAIN entries = {}
    BY DEF Init
  <2> QED  BY <2>1 DEF Init, FramesInv, FramesKept, InTurn
<1>2. FramesInv => FramesInWindow
  BY DEF FramesInv, FramesKept, FramesInWindow
<1> QED  BY <1>1, <1>2, FramesStep, PTL DEF Spec
-----------------------------------------------------------------------------
(* Feedback. *)

\* A fault in the form of an answer that has an action is no reason to skip.
Form == {"malformed_tag_structure"}

\* What the result at hand is going to tell of a turn that does nothing.
ResultInv ==
  /\ result = [output |-> result.output, errors |-> result.errors, found |-> result.found,
               messages |-> result.messages, text |-> result.text, usage |-> result.usage]
  /\ phase = "answered" /\ result.output = "interact" => result.found \subseteq Form
  /\ phase \in {"answered", "dispatched"} /\ result.output = "do_nothing" =>
       result.found \ Form \subseteq result.errors \cap Explained

SkipInv ==
  /\ ResultInv
  /\ phase = "waiting" /\ EnableNobf /\ step.output = "do_nothing" => Skipping \subseteq feedback
  /\ SkipIsExplained

\* The strategy that recovers is that of a refusal, or has words for its error.
LEMMA StrategyTells ==
  ASSUME NEW e \in Exceptions, CanHandle(e) # {}
  PROVE  Strategies[Min(CanHandle(e))] = GuardrailViolationRecovery
           \/ Strategies[Min(CanHandle(e))].error \in Explained
<1>1. Min(CanHandle(e)) \in 1..8
  <2>1. CanHandle(e) \subseteq 1..8
    BY DEF CanHandle, Strategies
  <2>2. CanHandle(e) \subseteq Nat
    BY <2>1
  <2> QED  BY <2>1, <2>2, MinOf
<1>2. ASSUME NEW i \in 1..8
      PROVE  Strategies[i] = GuardrailViolationRecovery \/ Strategies[i].error \in Explained
  <2>1. Strategies[1] = GuardrailViolationRecovery
    BY DEF Strategies
  <2>2. /\ Strategies[2].error = "server_error"
        /\ Strategies[3].error = "server_error"
        /\ Strategies[4].error = "max_output_tokens_exceeded"
        /\ Strategies[5].error = "action_not_present"
        /\ Strategies[6].error = "action_parsing_failed"
        /\ Strategies[7].error = "server_error"
        /\ Strategies[8].error = "unknown"
    BY DEF Strategies, Strategy, RequestQuotaExceededRecovery, ExhaustedRetriesRecovery,
       ExceededMaxOutputTokensRecovery, FailedReasoningParserRecovery, InvalidFormatRecovery,
       GoogleServerErrorRecovery, SomethingNewWentWrongRecovery
  <2> QED  BY <2>1, <2>2, i \in {1, 2, 3, 4, 5, 6, 7, 8} DEF Explained, Faults
<1> QED  BY <1>1, <1>2

\* A recovery that makes the turn a skip has words for its reason: only a refusal has none,
\* and that is no skip.
LEMMA RecoveryExplains ==
  ASSUME NEW e \in Exceptions, NEW size, CanHandle(e) # {}
  PROVE  LET r == Recovered(e, size)
         IN /\ r = [output |-> r.output, errors |-> r.errors, found |-> r.found,
                    messages |-> r.messages, text |-> r.text, usage |-> r.usage]
            /\ r.output # "interact"
            /\ r.output = "do_nothing" => r.found \subseteq r.errors \cap Explained
<1> DEFINE strategy == Strategies[Min(CanHandle(e))]
<1>1. strategy = GuardrailViolationRecovery \/ strategy.error \in Explained
  BY StrategyTells
<1> HIDE DEF strategy
<1> QED  BY <1>1 DEF Recovered, strategy

LEMMA SkipStep == SkipInv /\ [Next]_vars => SkipInv'
<1> SUFFICES ASSUME SkipInv, [Next]_vars PROVE SkipInv'
  OBVIOUS
<1> USE DEF SkipInv, SkipIsExplained, Skipping, Form
<1>1. ASSUME NEW frames \in Frames, Ask(frames) PROVE SkipInv'
  BY <1>1 DEF Ask, ResultInv
<1>2. ASSUME NEW output \in AllowedOutputs, NEW size \in ResponseTokens,
             NEW found \in {{}, {"malformed_tag_structure"}}, Answer(output, size, found)
      PROVE  SkipInv'
  BY <1>2 DEF Answer, ResultInv
<1>3. ASSUME NEW e \in Exceptions, NEW size \in ResponseTokens, Recover(e, size)
      PROVE  SkipInv'
  <2>1. result' = Recovered(e, size) /\ phase' = "answered" /\ CanHandle(e) # {}
    BY <1>3 DEF Recover
  <2>2. ResultInv'
    BY <2>1, RecoveryExplains DEF ResultInv
  <2> QED  BY <2>1, <2>2
<1>4. CASE (\E e \in Exceptions : Raise(e)) \/ DispatchFails
  BY <1>4 DEF Raise, DispatchFails, ResultInv
<1>5. ASSUME NEW fault \in Locations, Dispatch(fault) PROVE SkipInv'
  <2>1. CASE result.output # "interact"
    BY <1>5, <2>1 DEF Dispatch, ResultInv
  <2>2. CASE result.output = "interact" /\ fault = {}
    BY <1>5, <2>2 DEF Dispatch, _send_game_action, ResultInv
  <2>3. CASE result.output = "interact" /\ fault # {}
    <3>1. result' = [output |-> "do_nothing", errors |-> fault, found |-> result.found \cup fault,
                     messages |-> result.messages, text |-> result.text, usage |-> result.usage]
      BY <1>5, <2>3 DEF Dispatch, _send_game_action, ResultInv
    <3>2. fault \subseteq Explained
      BY <1>5 DEF Locations, Explained, Faults
    <3>3. result.found \subseteq Form
      BY <1>5, <2>3 DEF Dispatch, ResultInv
    <3> QED  BY <1>5, <3>1, <3>2, <3>3 DEF Dispatch, ResultInv
  <2> QED  BY <2>1, <2>2, <2>3
<1>6. CASE Finish
  BY <1>6 DEF Finish, ResultInv, NoResult
<1>7. CASE Reflect
  BY <1>7 DEF Reflect, ResultInv
<1>8. CASE UNCHANGED vars
  BY <1>8 DEF vars, ResultInv
<1> QED  BY <1>1, <1>2, <1>3, <1>4, <1>5, <1>6, <1>7, <1>8 DEF Next

\* A player of a pair with feedback whose turn was skipped is told why when it is asked again,
\* whatever went wrong: at its model, in the form of its answer, or with the place it named.
THEOREM SkipsExplained == Spec => []SkipIsExplained
<1>1. Init => SkipInv
  BY DEF Init, SkipInv, ResultInv, SkipIsExplained, Skipping, Form, NoResult, NoStep
<1> QED  BY <1>1, SkipStep, PTL DEF Spec, SkipInv
-----------------------------------------------------------------------------
(* Recursion, by induction over sets of numbers. *)

LEMMA SetInduction ==
    ASSUME NEW S, 0 \in S, \A n \in Nat : n \in S => n + 1 \in S
    PROVE  Nat \subseteq S
<1> SUFFICES ASSUME Nat \ S # {}
             PROVE  FALSE
  OBVIOUS
<1>1. PICK x \in Nat \ S : \A y \in Nat \ S : ~(y < x)
  BY Least
<1>2. x - 1 \in Nat /\ x - 1 < x
  BY <1>1
<1>3. x - 1 \in S
  BY <1>1, <1>2
<1> QED
  BY <1>1, <1>2, <1>3

\* g starts from e and takes each value from the one before by its rule.
Unrolls(g, e, rule, N) == g[0] = e /\ \A n \in 0..(N - 1) : g[n + 1] = rule[n][g[n]]

LEMMA Recursion ==
    ASSUME NEW V, NEW e \in V, NEW rule \in [Nat -> [V -> V]], NEW N \in Nat
    PROVE  \E g \in [0..N -> V] : Unrolls(g, e, rule, N)
<1> DEFINE Upto(m) == \E g \in [0..m -> V] :
                         g[0] = e /\ \A n \in 0..(m - 1) : g[n + 1] = rule[n][g[n]]
           S == {m \in Nat : Upto(m)}
<1>1. 0 \in S
  <2>1. [n \in 0..0 |-> e] \in [0..0 -> V]
    OBVIOUS
  <2>2. Upto(0)
    <3> WITNESS [n \in 0..0 |-> e] \in [0..0 -> V]
    <3> QED
      OBVIOUS
  <2> QED
    BY <2>2
<1>2. ASSUME NEW m \in Nat, m \in S
      PROVE  m + 1 \in S
  <2>1. PICK g \in [0..m -> V] : g[0] = e /\ \A n \in 0..(m - 1) : g[n + 1] = rule[n][g[n]]
    BY <1>2
  <2> DEFINE h == [n \in 0..(m + 1) |-> IF n = m + 1 THEN rule[m][g[m]] ELSE g[n]]
  <2>2. \A n \in 0..m : h[n] = g[n]
    OBVIOUS
  <2>3. h[m + 1] = rule[m][g[m]]
    OBVIOUS
  <2>4. h \in [0..(m + 1) -> V]
    OBVIOUS
  <2>5. h[0] = e
    BY <2>1, <2>2
  <2> HIDE DEF h
  <2>6. ASSUME NEW n \in 0..((m + 1) - 1)
        PROVE  h[n + 1] = rule[n][h[n]]
    <3>1. CASE n = m
      BY <3>1, <2>2, <2>3
    <3>2. CASE n # m
      <4>1. n \in 0..(m - 1) /\ n \in 0..m /\ n + 1 \in 0..m
        BY <3>2
      <4> QED
        BY <4>1, <2>1, <2>2
    <3> QED
      BY <3>1, <3>2
  <2>7. Upto(m + 1)
    BY <2>4, <2>5, <2>6
  <2> QED
    BY <2>7
<1> HIDE DEF S
<1>3. Nat \subseteq S
  BY <1>1, <1>2, SetInduction
<1> QED
  BY <1>3 DEF S, Unrolls
-----------------------------------------------------------------------------
(* Sizes. *)

\* s[n] is the sum of the first n of N sizes.
Sums(s, size, N) ==
  /\ s \in [0..N -> Nat] /\ s[0] = 0
  /\ \A n \in 1..N : s[n] = s[n - 1] + size[n]

Sizes(es) == [i \in DOMAIN es |-> Tokens(es[i])]
Sized(es) == (\E S : es \in Seq(S)) /\ \A i \in DOMAIN es : Tokens(es[i]) \in Nat

LEMMA TokensAreSums ==
  ASSUME NEW es, Sized(es)
  PROVE  \E s : Sums(s, Sizes(es), Len(es)) /\ TokensOf(es) = s[Len(es)]
<1> DEFINE L == Len(es)
           size == Sizes(es)
           More(n, x) == IF n + 1 \in 1..L THEN x + size[n + 1] ELSE x
           rule == [n \in Nat |-> [x \in Nat |-> More(n, x)]]
           Upto[n \in 0..L] == IF n = 0 THEN 0 ELSE Upto[n - 1] + Tokens(es[n])
<1>1. L \in Nat /\ \A i \in 1..L : size[i] = Tokens(es[i]) /\ size[i] \in Nat
  BY DEF Sized, Sizes
<1> HIDE DEF L, size
<1>2. rule \in [Nat -> [Nat -> Nat]]
  <2>1. \A n \in Nat, x \in Nat : More(n, x) \in Nat
    BY <1>1
  <2> HIDE DEF More
  <2> QED  BY <2>1
<1>3. \A n \in Nat, x \in Nat : rule[n][x] = More(n, x)
  OBVIOUS
<1>4. PICK g \in [0..L -> Nat] : Unrolls(g, 0, rule, L)
  <2> HIDE DEF rule
  <2>1. 0 \in Nat
    OBVIOUS
  <2> QED  BY <1>1, <1>2, <2>1, Recursion
<1> HIDE DEF rule
<1>5. ASSUME NEW i \in 1..L
      PROVE  g[i] = g[i - 1] + size[i]
  <2>1. i - 1 \in 0..(L - 1) /\ i - 1 \in 0..L /\ i - 1 \in Nat /\ (i - 1) + 1 = i
    BY <1>1
  <2>2. g[i] = rule[i - 1][g[i - 1]]
    BY <2>1, <1>4 DEF Unrolls
  <2>3. g[i - 1] \in Nat
    BY <2>1, <1>4
  <2>4. g[i] = More(i - 1, g[i - 1])
    BY <2>1, <2>2, <2>3, <1>3
  <2> QED  BY <2>1, <2>4
<1>6. g[0] = 0
  BY <1>4 DEF Unrolls
<1>7. \E h : h = [n \in 0..L |-> IF n = 0 THEN 0 ELSE h[n - 1] + Tokens(es[n])]
  <2>1. ASSUME NEW n \in 0..L
        PROVE  g[n] = IF n = 0 THEN 0 ELSE g[n - 1] + Tokens(es[n])
    <3>1. CASE n = 0
      BY <3>1, <1>6
    <3>2. CASE n # 0
      <4>1. n \in 1..L
        BY <1>1, <3>2
      <4> QED  BY <3>2, <4>1, <1>1, <1>5
    <3> QED  BY <3>1, <3>2
  <2>2. g = [n \in 0..L |-> IF n = 0 THEN 0 ELSE g[n - 1] + Tokens(es[n])]
    BY <1>4, <2>1
  <2> QED  BY <2>2
<1>8. Upto = [n \in 0..L |-> IF n = 0 THEN 0 ELSE Upto[n - 1] + Tokens(es[n])]
  BY <1>7
<1>9. TokensOf(es) = Upto[L]
  BY DEF TokensOf, L
<1> HIDE DEF Upto
<1>10. Upto[0] = 0 /\ \A n \in 1..L : Upto[n] = Upto[n - 1] + size[n]
  <2>1. Upto[0] = 0
    BY <1>1, <1>8
  <2>2. ASSUME NEW n \in 1..L
        PROVE  Upto[n] = Upto[n - 1] + size[n]
    <3>1. n \in 0..L /\ n # 0
      BY <1>1
    <3> QED  BY <3>1, <1>1, <1>8
  <2> QED  BY <2>1, <2>2
<1> DEFINE Inside == {n \in Nat : n \in 0..L => Upto[n] \in Nat}
<1>11. 0 \in Inside
  BY <1>10
<1>12. ASSUME NEW n \in Nat, n \in Inside
       PROVE  n + 1 \in Inside
  <2>1. SUFFICES ASSUME n + 1 \in 0..L
                 PROVE  Upto[n + 1] \in Nat
    OBVIOUS
  <2>2. n + 1 \in 1..L /\ n \in 0..L /\ (n + 1) - 1 = n
    BY <2>1, <1>1
  <2>3. Upto[n + 1] = Upto[n] + size[n + 1]
    BY <2>2, <1>10
  <2> QED  BY <2>2, <2>3, <1>1, <1>12
<1> HIDE DEF Inside
<1>13. Nat \subseteq Inside
  BY <1>11, <1>12, SetInduction
<1>14. Upto \in [0..L -> Nat]
  <2>1. \A n \in 0..L : n \in Nat /\ Upto[n] \in Nat
    BY <1>1, <1>13 DEF Inside
  <2> DEFINE Value(n) == IF n = 0 THEN 0 ELSE Upto[n - 1] + Tokens(es[n])
  <2>2. Upto = [n \in 0..L |-> Value(n)]
    BY <1>8
  <2> HIDE DEF Value
  <2> QED  BY <2>1, <2>2
<1> QED  BY <1>9, <1>10, <1>14 DEF Sums, L, size

LEMMA SumsCompare ==
  ASSUME NEW N \in Nat, NEW a, NEW b, NEW s, NEW t, Sums(s, a, N), Sums(t, b, N),
         \A i \in 1..N : a[i] \in Nat /\ b[i] \in Nat /\ a[i] <= b[i]
  PROVE  s[N] <= t[N]
<1> DEFINE Below == {n \in Nat : n \in 0..N => s[n] <= t[n]}
<1>1. 0 \in Below
  BY DEF Sums
<1>2. ASSUME NEW n \in Nat, n \in Below
      PROVE  n + 1 \in Below
  <2>1. SUFFICES ASSUME n + 1 \in 0..N
                 PROVE  s[n + 1] <= t[n + 1]
    OBVIOUS
  <2>2. n + 1 \in 1..N /\ n \in 0..N /\ (n + 1) - 1 = n
    BY <2>1
  <2>3. s[n + 1] = s[n] + a[n + 1] /\ t[n + 1] = t[n] + b[n + 1]
    BY <2>2 DEF Sums
  <2>4. s[n] \in Nat /\ t[n] \in Nat /\ s[n] <= t[n]
    BY <2>2, <1>2 DEF Sums
  <2>5. a[n + 1] \in Nat /\ b[n + 1] \in Nat /\ a[n + 1] <= b[n + 1]
    BY <2>2
  <2> QED  BY <2>3, <2>4, <2>5
<1> HIDE DEF Below
<1>3. Nat \subseteq Below
  BY <1>1, <1>2, SetInduction
<1> QED  BY <1>3 DEF Below

LEMMA SumsSplit ==
  ASSUME NEW N \in Nat, NEW k \in 0..N, NEW a, NEW b, NEW s, NEW t,
         Sums(s, a, N), Sums(t, b, N - k), \A i \in 1..(N - k) : b[i] = a[k + i] /\ b[i] \in Nat
  PROVE  s[N] = s[k] + t[N - k]
<1> DEFINE Split == {n \in Nat : n \in 0..(N - k) => s[k + n] = s[k] + t[n]}
<1>1. s[k] \in Nat /\ N - k \in Nat
  BY DEF Sums
<1>2. 0 \in Split
  BY <1>1 DEF Sums
<1>3. ASSUME NEW n \in Nat, n \in Split
      PROVE  n + 1 \in Split
  <2>1. SUFFICES ASSUME n + 1 \in 0..(N - k)
                 PROVE  s[k + (n + 1)] = s[k] + t[n + 1]
    OBVIOUS
  <2>2. /\ n + 1 \in 1..(N - k) /\ n \in 0..(N - k) /\ (n + 1) - 1 = n
        /\ k + (n + 1) \in 1..N /\ (k + (n + 1)) - 1 = k + n
    BY <2>1
  <2>3. s[k + (n + 1)] = s[k + n] + a[k + (n + 1)] /\ t[n + 1] = t[n] + b[n + 1]
    BY <2>2 DEF Sums
  <2>4. t[n] \in Nat /\ s[k + n] = s[k] + t[n]
    BY <2>2, <1>3 DEF Sums
  <2>5. b[n + 1] = a[k + (n + 1)] /\ b[n + 1] \in Nat
    BY <2>2
  <2> QED  BY <2>3, <2>4, <2>5, <1>1
<1> HIDE DEF Split
<1>4. Nat \subseteq Split
  BY <1>2, <1>3, SetInduction
<1> QED  BY <1>1, <1>4, k + (N - k) = N DEF Split

LEMMA SizeIsNat ==
  ASSUME NEW es, Sized(es)
  PROVE  TokensOf(es) \in Nat
<1>1. Len(es) \in Nat
  BY DEF Sized
<1> QED  BY <1>1, TokensAreSums DEF Sums

\* Of two conversations of one length the one with the smaller turns is no larger.
LEMMA SmallerTurns ==
  ASSUME NEW es, NEW fs, Sized(es), Sized(fs), Len(es) = Len(fs),
         \A i \in 1..Len(es) : Tokens(es[i]) <= Tokens(fs[i])
  PROVE  TokensOf(es) <= TokensOf(fs)
<1>1. PICK N \in Nat : N = Len(es) /\ N = Len(fs) /\ DOMAIN es = 1..N /\ DOMAIN fs = 1..N
  BY DEF Sized
<1>2. PICK s : Sums(s, Sizes(es), N) /\ TokensOf(es) = s[N]
  BY <1>1, TokensAreSums
<1>3. PICK t : Sums(t, Sizes(fs), N) /\ TokensOf(fs) = t[N]
  BY <1>1, TokensAreSums
<1>4. \A i \in 1..N : /\ Sizes(es)[i] \in Nat /\ Sizes(fs)[i] \in Nat
                      /\ Sizes(es)[i] <= Sizes(fs)[i]
  BY <1>1 DEF Sizes, Sized
<1> QED  BY <1>2, <1>3, <1>4, SumsCompare

\* A conversation is as large as its first k turns and the others.
LEMMA SizeOfParts ==
  ASSUME NEW es, Sized(es), NEW k \in 0..Len(es)
  PROVE  /\ Sized(SubSeq(es, 1, k)) /\ Sized(SubSeq(es, k + 1, Len(es)))
         /\ TokensOf(es) = TokensOf(SubSeq(es, 1, k)) + TokensOf(SubSeq(es, k + 1, Len(es)))
<1>1. PICK S : es \in Seq(S)
  BY DEF Sized
<1>2. PICK N \in Nat : N = Len(es) /\ DOMAIN es = 1..N
  BY <1>1
<1> DEFINE first == SubSeq(es, 1, k)
           rest == SubSeq(es, k + 1, N)
<1>3. k \in Nat /\ k <= N
  BY <1>2
<1>4. /\ first \in Seq(S) /\ Len(first) = k /\ DOMAIN first = 1..k
      /\ \A i \in 1..k : first[i] = es[i]
  BY <1>1, <1>2, <1>3
<1>5. /\ rest \in Seq(S) /\ Len(rest) = N - k /\ DOMAIN rest = 1..(N - k)
      /\ \A i \in 1..(N - k) : rest[i] = es[k + i]
  BY <1>1, <1>2, <1>3
<1> HIDE DEF first, rest
<1>6. Sized(first)
  BY <1>2, <1>3, <1>4 DEF Sized
<1>7. Sized(rest)
  <2>1. \A i \in 1..(N - k) : k + i \in 1..N
    BY <1>3
  <2> QED  BY <1>2, <1>5, <2>1 DEF Sized
<1>8. PICK s : Sums(s, Sizes(es), N) /\ TokensOf(es) = s[N]
  BY <1>2, TokensAreSums
<1>9. PICK p : Sums(p, Sizes(first), k) /\ TokensOf(first) = p[k]
  BY <1>4, <1>6, TokensAreSums
<1>10. PICK q : Sums(q, Sizes(rest), N - k) /\ TokensOf(rest) = q[N - k]
  BY <1>5, <1>7, TokensAreSums
<1>11. s[N] = s[k] + q[N - k]
  <2> DEFINE a == Sizes(es)
             b == Sizes(rest)
  <2>1. \A i \in 1..(N - k) : b[i] = a[k + i] /\ b[i] \in Nat
    <3> SUFFICES ASSUME NEW i \in 1..(N - k)
                 PROVE  b[i] = a[k + i] /\ b[i] \in Nat
      OBVIOUS
    <3>1. k + i \in 1..N
      BY <1>3
    <3> QED  BY <1>2, <1>5, <1>7, <3>1 DEF Sizes, Sized
  <2>2. k \in 0..N
    BY <1>2
  <2>3. /\ Sums(s, a, N) /\ Sums(q, b, N - k)
    BY <1>8, <1>10
  <2> HIDE DEF a, b
  <2> QED  BY <2>1, <2>2, <2>3, SumsSplit
<1>12. p[k] = s[k]
  <2> DEFINE t == [n \in 0..k |-> s[n]]
  <2>1. \A i \in 1..k : Sizes(first)[i] = Sizes(es)[i] /\ Sizes(first)[i] \in Nat
    BY <1>2, <1>3, <1>4, <1>6 DEF Sizes, Sized
  <2>2. Sums(t, Sizes(first), k)
    BY <1>3, <1>8, <2>1 DEF Sums
  <2>3. p[k] <= t[k] /\ t[k] <= p[k]
    BY <1>3, <1>9, <2>1, <2>2, SumsCompare
  <2>4. p[k] \in Nat /\ t[k] \in Nat /\ t[k] = s[k]
    BY <1>3, <1>8, <1>9 DEF Sums
  <2> QED  BY <2>3, <2>4
<1> QED  BY <1>2, <1>6, <1>7, <1>8, <1>9, <1>10, <1>11, <1>12 DEF first, rest

LEMMA SizeOfOne ==
  ASSUME NEW es, Sized(es), Len(es) = 1
  PROVE  TokensOf(es) = Tokens(es[1])
<1>1. DOMAIN es = 1..1
  BY DEF Sized
<1>2. PICK s : Sums(s, Sizes(es), 1) /\ TokensOf(es) = s[1]
  BY TokensAreSums
<1>3. Sizes(es)[1] = Tokens(es[1]) /\ Tokens(es[1]) \in Nat
  BY <1>1 DEF Sizes, Sized
<1>4. s[1] = s[1 - 1] + Sizes(es)[1] /\ s[0] = 0
  BY <1>2 DEF Sums
<1> QED  BY <1>2, <1>3, <1>4
-----------------------------------------------------------------------------
(* Prompts. *)

\* A turn as it is shown in its place of a conversation of N turns.
Shown(e, i, N) == [e EXCEPT !.frames = IF i > N - Window /\ @ > 0 THEN 1 ELSE 0]

LEMMA ShownTurn ==
  ASSUME NEW e \in Entry, NEW i, NEW N
  PROVE  /\ Shown(e, i, N) \in Entry
         /\ Tokens(Shown(e, i, N)) =
              e.text + (IF i > N - Window /\ e.frames > 0 THEN TokensPerImage ELSE 0)
         /\ Tokens(Shown(e, i, N)) \in Nat
<1> DEFINE f == IF i > N - Window /\ e.frames > 0 THEN 1 ELSE 0
<1>1. /\ f \in {0, 1} /\ e.text \in Nat /\ TokensPerImage \in Nat
      /\ f = IF i > N - Window /\ e.frames > 0 THEN 1 ELSE 0
  BY TurnConstants DEF Entry
<1>2. Shown(e, i, N) = [e EXCEPT !.frames = f]
  BY DEF Shown
<1> HIDE DEF f
<1>3. Shown(e, i, N) \in Entry /\ Shown(e, i, N).text = e.text /\ Shown(e, i, N).frames = f
  BY <1>1, <1>2 DEF Entry
<1>4. f = 0 => f * TokensPerImage = 0
  BY <1>1
<1>5. f = 1 => f * TokensPerImage = TokensPerImage
  BY <1>1
<1> QED  BY <1>1, <1>3, <1>4, <1>5 DEF Tokens

LEMMA WindowedTurns ==
  ASSUME NEW es \in Seq(Entry)
  PROVE  /\ Windowed(es) \in Seq(Entry) /\ Len(Windowed(es)) = Len(es)
         /\ \A i \in 1..Len(es) : Windowed(es)[i] = Shown(es[i], i, Len(es))
         /\ Sized(Windowed(es))
<1>1. PICK N \in Nat : N = Len(es) /\ DOMAIN es = 1..N /\ \A i \in 1..N : es[i] \in Entry
  OBVIOUS
<1>2. Windowed(es) = [i \in 1..N |-> Shown(es[i], i, N)]
  <2>1. \A i \in 1..N : i \in InWindow(es) <=> i > N - Window
    BY <1>1 DEF InWindow
  <2> QED  BY <1>1, <2>1 DEF Windowed, Shown
<1>3. \A i \in 1..N : Shown(es[i], i, N) \in Entry /\ Tokens(Shown(es[i], i, N)) \in Nat
  BY <1>1, ShownTurn
<1>4. Windowed(es) \in Seq(Entry) /\ Len(Windowed(es)) = N
  BY <1>2, <1>3
<1>5. Sized(Windowed(es))
  BY <1>2, <1>3, <1>4 DEF Sized
<1> QED  BY <1>1, <1>2, <1>4, <1>5

LEMMA Dropped ==
  ASSUME NEW S, NEW es \in Seq(S), NEW N \in Nat, N = Len(es), NEW k \in 0..N
  PROVE  /\ drop_oldest_non_pinned(es, k) \in Seq(S)
         /\ Len(drop_oldest_non_pinned(es, k)) = N - k
         /\ \A i \in 1..(N - k) : drop_oldest_non_pinned(es, k)[i] = es[k + i]
BY DEF drop_oldest_non_pinned

LEMMA DroppedTurns ==
  \A es \in Seq(Entry) : \A N \in Nat : \A k \in 0..N :
    N = Len(es) => /\ drop_oldest_non_pinned(es, k) \in Seq(Entry)
                   /\ Len(drop_oldest_non_pinned(es, k)) = N - k
                   /\ \A i \in 1..(N - k) : drop_oldest_non_pinned(es, k)[i] = es[k + i]
BY Dropped

LEMMA DroppedTwice ==
  ASSUME NEW es \in Seq(Entry), NEW N \in Nat, N = Len(es), NEW j \in 0..N,
         NEW k \in 0..(N - j)
  PROVE  drop_oldest_non_pinned(drop_oldest_non_pinned(es, j), k)
           = drop_oldest_non_pinned(es, j + k)
<1> DEFINE once == drop_oldest_non_pinned(es, j)
<1>0. N \in Nat /\ j \in Nat /\ N - j \in Nat /\ j <= N
  <2>1. \A a \in Nat : \A b \in 0..a : b \in Nat /\ a - b \in Nat /\ b <= a
    OBVIOUS
  <2> QED  BY <2>1
<1>1. PICK M \in Nat : M = N - j /\ k \in 0..M
  BY <1>0
<1>2. once \in Seq(Entry) /\ Len(once) = M /\ \A i \in 1..M : once[i] = es[j + i]
  <2>1. /\ Len(once) = N - j /\ once \in Seq(Entry)
        /\ \A i \in 1..(N - j) : once[i] = es[j + i]
    BY Dropped
  <2> HIDE DEF once
  <2> QED  BY <1>1, <2>1
<1> HIDE DEF once
<1>3. /\ drop_oldest_non_pinned(once, k) \in Seq(Entry)
      /\ Len(drop_oldest_non_pinned(once, k)) = M - k
      /\ \A i \in 1..(M - k) : drop_oldest_non_pinned(once, k)[i] = once[k + i]
  <2>1. once \in Seq(Entry) /\ M = Len(once)
    BY <1>2
  <2> QED  BY <1>1, <2>1, DroppedTurns
<1>4. PICK l \in 0..N : l = j + k
  BY <1>1
<1>5. /\ drop_oldest_non_pinned(es, l) \in Seq(Entry)
      /\ Len(drop_oldest_non_pinned(es, l)) = N - l
      /\ \A i \in 1..(N - l) : drop_oldest_non_pinned(es, l)[i] = es[l + i]
  BY DroppedTurns
<1>6. N - l = M - k
  BY <1>1, <1>4
<1>7. ASSUME NEW i \in 1..(M - k)
      PROVE  drop_oldest_non_pinned(once, k)[i] = drop_oldest_non_pinned(es, l)[i]
  <2>1. k + i \in 1..M /\ j + (k + i) = l + i
    BY <1>1, <1>4
  <2> QED  BY <1>2, <1>3, <1>5, <1>6, <2>1
<1> QED  BY <1>1, <1>3, <1>4, <1>5, <1>6, <1>7, SeqEqual DEF once

LEMMA DropWindowed ==
  ASSUME NEW es \in Seq(Entry), NEW k \in 0..Len(es)
  PROVE  drop_oldest_non_pinned(Windowed(es), k) = Windowed(drop_oldest_non_pinned(es, k))
<1> DEFINE rest == drop_oldest_non_pinned(es, k)
           shown == Windowed(es)
<1>1. PICK N \in Nat : N = Len(es) /\ k \in 0..N /\ k \in Nat
  OBVIOUS
<1>2. rest \in Seq(Entry) /\ Len(rest) = N - k /\ \A i \in 1..(N - k) : rest[i] = es[k + i]
  BY <1>1, Dropped
<1>3. shown \in Seq(Entry) /\ Len(shown) = N /\ \A i \in 1..N : shown[i] = Shown(es[i], i, N)
  BY <1>1, WindowedTurns
<1> HIDE DEF rest, shown
<1>4. /\ drop_oldest_non_pinned(shown, k) \in Seq(Entry)
      /\ Len(drop_oldest_non_pinned(shown, k)) = N - k
      /\ \A i \in 1..(N - k) : drop_oldest_non_pinned(shown, k)[i] = shown[k + i]
  BY <1>1, <1>3, Dropped
<1>5. /\ Windowed(rest) \in Seq(Entry) /\ Len(Windowed(rest)) = N - k
      /\ \A i \in 1..(N - k) : Windowed(rest)[i] = Shown(rest[i], i, N - k)
  BY <1>2, WindowedTurns
<1>6. ASSUME NEW i \in 1..(N - k)
      PROVE  drop_oldest_non_pinned(shown, k)[i] = Windowed(rest)[i]
  <2>1. k + i \in 1..N /\ (k + i > N - Window <=> i > (N - k) - Window)
    BY <1>1, TurnConstants
  <2>2. drop_oldest_non_pinned(shown, k)[i] = Shown(es[k + i], k + i, N)
    BY <1>3, <1>4, <2>1
  <2>3. Windowed(rest)[i] = Shown(es[k + i], i, N - k)
    BY <1>2, <1>5
  <2> QED  BY <2>1, <2>2, <2>3 DEF Shown
<1>7. drop_oldest_non_pinned(shown, k) = Windowed(rest)
  BY <1>1, <1>4, <1>5, <1>6, SeqEqual
<1> QED  BY <1>7 DEF rest, shown

\* Truncation leaves what was measured of the last prompt, less what it takes out, within
\* the budget, or else nothing but the last turn.
LEMMA DropsEnough ==
  ASSUME NEW es \in Seq(Entry), NEW omitted \in 0..(Len(es) - 1), es # <<>>,
         es[Len(es)].usage > 0
  PROVE  LET d == turns_to_drop(es, omitted)
             shown(n) == TokensOf(Windowed(drop_oldest_non_pinned(es, n)))
         IN /\ d \in omitted..(Len(es) - 1)
            /\ \/ d = Len(es) - 1
               \/ es[Len(es)].usage + shown(d) <= Budget + shown(omitted)
<1>1. PICK N \in Nat : N = Len(es) /\ N # 0
  OBVIOUS
<1>2. omitted \in Nat /\ omitted \in 0..N /\ omitted <= N - 1
  BY <1>1
<1> DEFINE active == drop_oldest_non_pinned(es, omitted)
           shown(n) == TokensOf(Windowed(drop_oldest_non_pinned(es, n)))
           measured == es[N].usage
<1>3. /\ active \in Seq(Entry) /\ Len(active) = N - omitted
      /\ \A i \in 1..(N - omitted) : active[i] = es[omitted + i]
  BY <1>1, <1>2, Dropped
<1>4. active # <<>> /\ active[Len(active)] = es[N]
  <2>1. N - omitted \in 1..(N - omitted) /\ omitted + (N - omitted) = N
    BY <1>2
  <2> QED  BY <1>3, <2>1
<1>5. measured \in Nat /\ measured # 0 /\ Budget \in Int
  <2>1. es[N] \in Entry /\ es[N].usage > 0
    BY <1>1
  <2>2. Budget \in Int
    BY TurnConstants DEF Budget
  <2>3. \A e \in Entry : e.usage \in Nat
    BY DEF Entry
  <2> QED  BY <2>1, <2>2, <2>3
<1>6. drop_oldest_non_pinned(Windowed(es), omitted) = Windowed(active)
  BY <1>1, <1>2, DropWindowed
<1>7. /\ Windowed(active) \in Seq(Entry) /\ Len(Windowed(active)) = N - omitted
      /\ Sized(Windowed(active))
  BY <1>3, WindowedTurns
<1> DEFINE Freed(n) == TokensOf(SubSeq(Windowed(active), 1, n))
           enough == {n \in 1..(N - omitted) - 1 : measured - Freed(n) <= Budget}
<1>8. ASSUME NEW n \in 0..(N - omitted)
      PROVE  /\ shown(omitted) = Freed(n) + shown(omitted + n)
             /\ Freed(n) \in Nat /\ shown(omitted + n) \in Nat
  <2>1. n \in 0..Len(Windowed(active)) /\ n \in 0..Len(active) /\ omitted + n \in 0..N
    BY <1>2, <1>3, <1>7
  <2>2. SubSeq(Windowed(active), n + 1, Len(Windowed(active)))
          = Windowed(drop_oldest_non_pinned(active, n))
    BY <1>3, <2>1, DropWindowed DEF drop_oldest_non_pinned
  <2>3. drop_oldest_non_pinned(active, n) = drop_oldest_non_pinned(es, omitted + n)
    BY <1>1, <1>2, DroppedTwice
  <2>4. /\ Sized(SubSeq(Windowed(active), 1, n))
        /\ Sized(SubSeq(Windowed(active), n + 1, Len(Windowed(active))))
        /\ TokensOf(Windowed(active)) = TokensOf(SubSeq(Windowed(active), 1, n))
             + TokensOf(SubSeq(Windowed(active), n + 1, Len(Windowed(active))))
    BY <1>7, <2>1, SizeOfParts
  <2> QED  BY <2>2, <2>3, <2>4, SizeIsNat
<1>9. turns_to_drop(es, omitted) = IF measured <= Budget THEN omitted
        ELSE omitted + (IF enough # {} THEN Min(enough) ELSE (N - omitted) - 1)
  BY <1>3, <1>4, <1>5, <1>6 DEF turns_to_drop
<1> HIDE DEF active, shown, Freed, measured
<1>10. CASE measured <= Budget
  <2>1. shown(omitted) \in Nat
    <3>1. 0 \in 0..(N - omitted) /\ omitted + 0 = omitted
      BY <1>2
    <3> QED  BY <1>8, <3>1
  <2> QED  BY <1>1, <1>2, <1>5, <1>9, <1>10, <2>1 DEF shown, measured
<1>11. CASE ~(measured <= Budget) /\ enough # {}
  <2>1. Min(enough) \in enough
    <3>1. enough \subseteq Nat
      BY <1>2
    <3> QED  BY <1>11, <3>1, MinOf
  <2>2. PICK n : n = Min(enough) /\ n \in 1..(N - omitted) - 1 /\ measured - Freed(n) <= Budget
    BY <2>1
  <2>3. n \in 0..(N - omitted) /\ n \in Nat
    BY <1>2, <2>2
  <2>4. /\ shown(omitted) = Freed(n) + shown(omitted + n)
        /\ Freed(n) \in Nat /\ shown(omitted + n) \in Nat
    BY <1>8, <2>3
  <2>5. measured + shown(omitted + n) <= Budget + shown(omitted)
    BY <1>5, <2>2, <2>4
  <2>6. turns_to_drop(es, omitted) = omitted + n /\ omitted + n \in omitted..(N - 1)
    BY <1>2, <1>9, <1>11, <2>2
  <2> QED  BY <1>1, <2>5, <2>6 DEF shown, measured
<1>12. CASE ~(measured <= Budget) /\ enough = {}
  <2>1. turns_to_drop(es, omitted) = N - 1
    BY <1>2, <1>9, <1>12
  <2> QED  BY <1>1, <1>2, <2>1
<1> QED  BY <1>10, <1>11, <1>12

\* A turn that joins is the last; the others at most lose a frame.
LEMMA JoinedTurns ==
  ASSUME entries \in Seq(Entry), NEW N \in Nat, N = Len(entries), NEW turn \in Entry
  PROVE  /\ Joined(turn) \in Seq(Entry) /\ Len(Joined(turn)) = N + 1
         /\ \A i \in 1..N : /\ Joined(turn)[i].text = entries[i].text
                            /\ Joined(turn)[i].frames > 0 => entries[i].frames > 0
         /\ Joined(turn)[N + 1].text = turn.text
         /\ Joined(turn)[N + 1].usage = turn.usage
         /\ Joined(turn)[N + 1].frames > 0 => turn.frames > 0
<1> DEFINE es == Append(entries, turn)
           js == Joined(turn)
<1>1. /\ es \in Seq(Entry) /\ Len(es) = N + 1 /\ DOMAIN es = 1..(N + 1)
      /\ \A i \in 1..N : es[i] = entries[i]
      /\ es[N + 1] = turn
  OBVIOUS
<1>2. js = [i \in DOMAIN es |-> IF i \in InWindow(es) THEN es[i] ELSE [es[i] EXCEPT !.frames = 0]]
  BY DEF Joined
<1> HIDE DEF es, js
<1>3. ASSUME NEW i \in 1..(N + 1)
      PROVE  /\ js[i] \in Entry /\ js[i].text = es[i].text /\ js[i].usage = es[i].usage
             /\ js[i].frames > 0 => es[i].frames > 0
  <2>1. PICK e \in Entry : e = es[i]
    BY <1>1
  <2>2. /\ [e EXCEPT !.frames = 0] \in Entry
        /\ [e EXCEPT !.frames = 0].text = e.text /\ [e EXCEPT !.frames = 0].usage = e.usage
        /\ [e EXCEPT !.frames = 0].frames = 0
    BY DEF Entry
  <2>3. js[i] = e \/ js[i] = [e EXCEPT !.frames = 0]
    BY <1>1, <1>2, <2>1
  <2>4. CASE js[i] = e
    BY <2>1, <2>4
  <2>5. CASE js[i] = [e EXCEPT !.frames = 0]
    BY <2>1, <2>2, <2>5
  <2> QED  BY <2>3, <2>4, <2>5
<1>4. js \in Seq(Entry) /\ Len(js) = N + 1
  BY <1>1, <1>2, <1>3
<1>5. N + 1 \in 1..(N + 1) /\ \A i \in 1..N : i \in 1..(N + 1)
  OBVIOUS
<1>6. /\ \A i \in 1..N : js[i].text = entries[i].text /\ (js[i].frames > 0 => entries[i].frames > 0)
      /\ js[N + 1].text = turn.text /\ js[N + 1].usage = turn.usage
      /\ js[N + 1].frames > 0 => turn.frames > 0
  BY <1>1, <1>3, <1>5
<1> QED  BY <1>4, <1>6 DEF js

\* By joining, what is shown grows by that turn and a frame of it at most.
LEMMA JoinGrows ==
  ASSUME entries \in Seq(Entry), NEW N \in Nat, N = Len(entries), NEW turn \in Entry,
         NEW d \in 0..N, NEW frame, frame = IF turn.frames > 0 THEN TokensPerImage ELSE 0
  PROVE  /\ TokensOf(Windowed(drop_oldest_non_pinned(Joined(turn), d))) \in Nat
         /\ TokensOf(Windowed(drop_oldest_non_pinned(entries, d))) \in Nat
         /\ TokensOf(Windowed(drop_oldest_non_pinned(Joined(turn), d)))
              <= TokensOf(Windowed(drop_oldest_non_pinned(entries, d))) + turn.text + frame
<1> DEFINE js    == Joined(turn)
           left  == drop_oldest_non_pinned(entries, d)
           grown == drop_oldest_non_pinned(js, d)
           old   == Windowed(left)
           new   == Windowed(grown)
<1>1. PICK m \in Nat : /\ m = N - d /\ m + 1 = (N + 1) - d
                       /\ d + (m + 1) = N + 1 /\ \A i \in 1..m : d + i \in 1..N
  <2>1. \A a \in Nat : \A b \in 0..a :
          /\ a - b \in Nat /\ (a - b) + 1 = (a + 1) - b /\ b + ((a - b) + 1) = a + 1
          /\ \A i \in 1..(a - b) : b + i \in 1..a
    OBVIOUS
  <2> QED  BY <2>1
<1>2. /\ js \in Seq(Entry) /\ Len(js) = N + 1
      /\ \A i \in 1..N : js[i].text = entries[i].text /\ (js[i].frames > 0 => entries[i].frames > 0)
      /\ js[N + 1].text = turn.text
      /\ js[N + 1].frames > 0 => turn.frames > 0
  BY JoinedTurns
<1> HIDE DEF js
<1>3. /\ left \in Seq(Entry) /\ Len(left) = m /\ \A i \in 1..m : left[i] = entries[d + i]
  <2>1. /\ left \in Seq(Entry) /\ Len(left) = N - d
        /\ \A i \in 1..(N - d) : left[i] = entries[d + i]
    BY Dropped
  <2> HIDE DEF left
  <2> QED  BY <1>1, <2>1
<1>4. /\ grown \in Seq(Entry) /\ Len(grown) = m + 1 /\ \A i \in 1..(m + 1) : grown[i] = js[d + i]
  <2>1. PICK M \in Nat : M = N + 1 /\ M = Len(js) /\ d \in 0..M
    BY <1>2
  <2>2. /\ grown \in Seq(Entry) /\ Len(grown) = M - d
        /\ \A i \in 1..(M - d) : grown[i] = js[d + i]
    BY <1>2, <2>1, DroppedTurns
  <2> HIDE DEF grown
  <2> QED  BY <1>1, <2>1, <2>2
<1> HIDE DEF left, grown
<1>5. /\ old \in Seq(Entry) /\ Len(old) = m /\ Sized(old)
      /\ \A i \in 1..m : old[i] = Shown(left[i], i, m)
  BY <1>3, WindowedTurns
<1>6. /\ new \in Seq(Entry) /\ Len(new) = m + 1 /\ Sized(new)
      /\ \A i \in 1..(m + 1) : new[i] = Shown(grown[i], i, m + 1)
  BY <1>4, WindowedTurns
<1> HIDE DEF old, new
<1> DEFINE first == SubSeq(new, 1, m)
           last  == SubSeq(new, m + 1, m + 1)
<1>7. /\ Sized(first) /\ Sized(last) /\ TokensOf(new) = TokensOf(first) + TokensOf(last)
  <2>1. m \in 0..Len(new)
    BY <1>6
  <2> QED  BY <1>6, <2>1, SizeOfParts
<1>8. /\ Len(first) = m /\ \A i \in 1..m : first[i] = new[i]
      /\ Len(last) = 1 /\ last[1] = new[m + 1]
  BY <1>6
<1> HIDE DEF first, last
<1>9. TokensOf(first) <= TokensOf(old)
  <2>1. ASSUME NEW i \in 1..m
        PROVE  Tokens(first[i]) <= Tokens(old[i])
    <3>1. /\ left[i] \in Entry /\ grown[i] \in Entry /\ i \in 1..(m + 1)
          /\ grown[i].text = left[i].text
          /\ grown[i].frames > 0 => left[i].frames > 0
      <4>1. i \in 1..(m + 1)
        OBVIOUS
      <4> QED  BY <1>1, <1>2, <1>3, <1>4, <4>1
    <3>2. first[i] = Shown(grown[i], i, m + 1) /\ old[i] = Shown(left[i], i, m)
      BY <1>5, <1>6, <1>8, <3>1
    <3>3. /\ Tokens(first[i]) = grown[i].text
               + (IF i > (m + 1) - Window /\ grown[i].frames > 0 THEN TokensPerImage ELSE 0)
          /\ Tokens(old[i]) = left[i].text
               + (IF i > m - Window /\ left[i].frames > 0 THEN TokensPerImage ELSE 0)
      BY <3>1, <3>2, ShownTurn
    <3>4. i > (m + 1) - Window => i > m - Window
      BY TurnConstants
    <3>5. left[i].text \in Nat /\ TokensPerImage \in Nat
      BY <3>1, TurnConstants DEF Entry
    <3> QED  BY <3>1, <3>3, <3>4, <3>5
  <2> QED  BY <1>5, <1>7, <1>8, <2>1, SmallerTurns
<1>10. TokensOf(last) <= turn.text + frame
  <2>1. m + 1 \in 1..(m + 1) /\ grown[m + 1] = js[N + 1] /\ grown[m + 1] \in Entry
    <3>1. m + 1 \in 1..(m + 1)
      OBVIOUS
    <3> QED  BY <1>1, <1>4, <3>1
  <2>2. TokensOf(last) = Tokens(Shown(grown[m + 1], m + 1, m + 1))
    BY <1>6, <1>7, <1>8, <2>1, SizeOfOne
  <2>3. Tokens(Shown(grown[m + 1], m + 1, m + 1)) = grown[m + 1].text
          + (IF m + 1 > (m + 1) - Window /\ grown[m + 1].frames > 0 THEN TokensPerImage ELSE 0)
    BY <2>1, ShownTurn
  <2>4. turn.text \in Nat /\ TokensPerImage \in Nat
    BY TurnConstants DEF Entry
  <2> QED  BY <1>2, <2>1, <2>2, <2>3, <2>4
<1>11. TokensOf(new) \in Nat /\ TokensOf(old) \in Nat /\ TokensOf(first) \in Nat
       /\ TokensOf(last) \in Nat /\ turn.text \in Nat /\ frame \in Nat
  BY <1>5, <1>6, <1>7, SizeIsNat, TurnConstants DEF Entry
<1>12. TokensOf(new) <= TokensOf(old) + turn.text + frame
  BY <1>7, <1>9, <1>10, <1>11
<1> QED  BY <1>11, <1>12 DEF new, old, left, grown, js

LEMMA NothingShown == TokensOf(Windowed(<<>>)) = 0
<1>1. <<>> \in Seq(Entry) /\ Len(<<>>) = 0
  OBVIOUS
<1>2. Sized(Windowed(<<>>)) /\ Len(Windowed(<<>>)) = 0
  BY <1>1, WindowedTurns
<1>3. PICK s : Sums(s, Sizes(Windowed(<<>>)), 0) /\ TokensOf(Windowed(<<>>)) = s[0]
  BY <1>2, TokensAreSums
<1> QED  BY <1>3 DEF Sums

\* What the frames of a request take.
LEMMA FrameCost ==
  ASSUME NEW f \in Frames
  PROVE  /\ f \in 0..MaxObservations /\ f * TokensPerImage \in Nat
         /\ MaxObservations * TokensPerImage \in Nat
         /\ TokensPerImage <= MaxObservations * TokensPerImage
         /\ f * TokensPerImage <= MaxObservations * TokensPerImage
         /\ (IF f > 0 THEN TokensPerImage ELSE 0) <= f * TokensPerImage
<1>1. MaxObservations \in Nat \ {0} /\ TokensPerImage \in Nat
  BY TurnConstants
<1>2. /\ MaxObservations * TokensPerImage \in Nat
      /\ TokensPerImage <= MaxObservations * TokensPerImage
  <2>1. \A m \in Nat : m * TokensPerImage \in Nat
    BY <1>1
  <2>2. (MaxObservations - 1) * TokensPerImage \in Nat
    BY <1>1, <2>1
  <2>3. MaxObservations * TokensPerImage = (MaxObservations - 1) * TokensPerImage + TokensPerImage
    BY <1>1
  <2> QED  BY <1>1, <2>2, <2>3
<1>3. f = 0 \/ f = 1 \/ f = MaxObservations
  BY DEF Frames
<1>4. CASE f = 0
  <2>1. f * TokensPerImage = 0
    BY <1>1, <1>4
  <2> QED  BY <1>1, <1>2, <1>4, <2>1
<1>5. CASE f = 1
  <2>1. f * TokensPerImage = TokensPerImage
    BY <1>1, <1>5
  <2> QED  BY <1>1, <1>2, <1>5, <2>1
<1>6. CASE f = MaxObservations
  BY <1>1, <1>2, <1>6
<1> QED  BY <1>3, <1>4, <1>5, <1>6

\* A fifth of the limit and an image are room for an answer and a request; where truncation
\* left the last turn alone, it fits with what is pinned.
LEMMA RoomIsEnough ==
  ASSUME NEW r \in ResponseTokens, NEW f \in Frames, NEW shown \in Nat,
         \/ PinnedTokens + shown <= Budget + r
         \/ shown <= RequestTokens + r + TokensPerImage
  PROVE  PinnedTokens + shown + RequestTokens + f * TokensPerImage <= InputTokensLimit
<1> DEFINE frames == f * TokensPerImage
           most   == MaxObservations * TokensPerImage
           part   == (4 * InputTokensLimit) \div 5
<1>1. /\ InputTokensLimit \in Nat /\ TokensPerImage \in Nat /\ PinnedTokens \in Nat
      /\ RequestTokens \in Nat /\ r \in Nat
  BY TurnConstants
<1>2. part \in Nat /\ 5 * part <= 4 * InputTokensLimit
  BY <1>1
<1>3. /\ frames \in Nat /\ most \in Nat /\ frames <= most /\ TokensPerImage <= most
  BY FrameCost
<1>4. Budget = part - (most + TokensPerImage)
  <2>1. (MaxObservations + 1) * TokensPerImage = most + TokensPerImage
    BY TurnConstants
  <2> QED  BY <2>1 DEF Budget
<1>5. /\ 5 * (r + RequestTokens) <= InputTokensLimit + 5 * TokensPerImage
      /\ PinnedTokens + RequestTokens + most <= Budget
  BY RoomToPlay
<1> HIDE DEF frames, most, part
<1>6. PinnedTokens + shown + RequestTokens + frames <= InputTokensLimit
  <2>1. CASE PinnedTokens + shown <= Budget + r
    BY <1>1, <1>2, <1>3, <1>4, <1>5, <2>1
  <2>2. CASE shown <= RequestTokens + r + TokensPerImage
    BY <1>1, <1>2, <1>3, <1>4, <1>5, <2>2
  <2> QED  BY <2>1, <2>2
<1> QED  BY <1>6 DEF frames

\* Some turn is always shown, whatever was measured.
LEMMA TruncationShows ==
  ASSUME NEW es \in Seq(Entry), NEW omitted \in 0..Len(es), es # <<>> => omitted < Len(es)
  PROVE  /\ turns_to_drop(es, omitted) \in 0..Len(es)
         /\ es # <<>> => turns_to_drop(es, omitted) < Len(es)
<1>1. PICK N \in Nat : N = Len(es)
  OBVIOUS
<1> DEFINE active == drop_oldest_non_pinned(es, omitted)
<1>2. /\ Len(active) = N - omitted /\ active \in Seq(Entry)
      /\ \A i \in 1..(N - omitted) : active[i] = es[omitted + i]
  BY <1>1, Dropped
<1>3. CASE es = <<>>
  <2>1. active = <<>>
    BY <1>1, <1>2, <1>3
  <2> QED  BY <1>3, <2>1 DEF turns_to_drop
<1>4. CASE es # <<>> /\ es[N].usage > 0
  <2>1. turns_to_drop(es, omitted) \in omitted..(Len(es) - 1)
    BY <1>1, <1>4, DropsEnough
  <2> QED  BY <1>1, <2>1
<1>5. CASE es # <<>> /\ ~(es[N].usage > 0)
  <2>1. es[N] \in Entry
    BY <1>1, <1>5
  <2>2. es[N].usage = 0
    BY <1>5, <2>1 DEF Entry
  <2>3. active[Len(active)] = es[N]
    <3>1. N - omitted \in 1..(N - omitted) /\ omitted + (N - omitted) = N
      BY <1>1, <1>5
    <3> QED  BY <1>2, <3>1
  <2>4. turns_to_drop(es, omitted) = omitted
    BY <2>2, <2>3 DEF turns_to_drop
  <2> QED  BY <1>1, <1>5, <2>4
<1> QED  BY <1>3, <1>4, <1>5
-----------------------------------------------------------------------------
(* The size of a prompt. *)

\* Some turn is always shown, and a turn has joined since the last evaluation.
SomeShown ==
  entries # <<>> =>
    /\ _dropped_non_pinned < Len(entries)
    /\ phase = "waiting" => _evaluated_non_pinned < Len(entries)

\* All that a request has was counted.
AsCounted ==
  InTurn =>
    /\ Len(entries) < MaxTurns
    /\ request.frames \in Frames
    /\ request.tokens = PinnedTokens + TokensOf(request.history) + RequestTokens
                        + request.frames * TokensPerImage

\* An answer that was measured was measured with its request.
AsMeasured ==
  phase \in {"answered", "dispatched"} /\ result.messages # <<>> /\ result.usage > 0 =>
    /\ result.usage = request.tokens
    /\ \E r \in ResponseTokens : result.text = RequestTokens + r

\* Between turns only the last answer was not part of what was measured.
Outgrown ==
  phase = "waiting" /\ entries # <<>> /\ entries[Len(entries)].usage > 0 =>
    \E r \in ResponseTokens :
      /\ PinnedTokens + TokensOf(Windowed(drop_oldest_non_pinned(entries, _dropped_non_pinned)))
           <= entries[Len(entries)].usage + r
      /\ TokensOf(Windowed(drop_oldest_non_pinned(entries, Len(entries) - 1)))
           <= RequestTokens + r + TokensPerImage

FitInv ==
  /\ TypeOK
  /\ RecordInv
  /\ SomeShown
  /\ AsCounted
  /\ AsMeasured
  /\ Outgrown
  /\ PromptFits

\* A render keeps to the turns there are and shows the last.
LEMMA RenderShows ==
  ASSUME TypeOK, SomeShown, _refresh_truncation
  PROVE  /\ _dropped_non_pinned' \in 0..Len(entries) /\ _evaluated_non_pinned' = Len(entries)
         /\ entries # <<>> => _dropped_non_pinned' < Len(entries)
         /\ render \in Seq(Entry) /\ TokensOf(render) \in Nat
<1>1. /\ entries \in Seq(Entry) /\ _dropped_non_pinned \in 0..Len(entries)
      /\ entries # <<>> => _dropped_non_pinned < Len(entries)
  BY DEF TypeOK, SomeShown
<1>2. /\ _dropped_non_pinned' = IF Len(entries) = _evaluated_non_pinned THEN _dropped_non_pinned
                                ELSE turns_to_drop(entries, _dropped_non_pinned)
      /\ _evaluated_non_pinned' = Len(entries)
  BY DEF _refresh_truncation
<1>3. /\ _dropped_non_pinned' \in 0..Len(entries)
      /\ entries # <<>> => _dropped_non_pinned' < Len(entries)
  BY <1>1, <1>2, TruncationShows
<1>4. PICK d \in 0..Len(entries) : d = _dropped_non_pinned'
  BY <1>3
<1> DEFINE shown == Windowed(drop_oldest_non_pinned(entries, d))
<1>5. drop_oldest_non_pinned(entries, d) \in Seq(Entry)
  <2>1. PICK N \in Nat : N = Len(entries)
    BY <1>1
  <2> QED  BY <1>1, <1>4, <2>1, Dropped
<1>6. shown \in Seq(Entry) /\ TokensOf(shown) \in Nat
  BY <1>5, WindowedTurns, SizeIsNat
<1> QED  BY <1>2, <1>3, <1>4, <1>6 DEF render

\* What was measured tells of the next prompt.
LEMMA AskFits ==
  ASSUME FitInv, NEW frames \in Frames, Ask(frames)
  PROVE  PromptFits'
<1> SUFFICES ASSUME entries # <<>>, entries[Len(entries)].usage > 0
             PROVE  request'.tokens <= InputTokensLimit
  BY DEF Ask, PromptFits
<1>1. PICK N \in Nat : N = Len(entries) /\ N # 0
  BY DEF FitInv, TypeOK
<1>2. /\ phase = "waiting" /\ entries \in Seq(Entry)
      /\ _dropped_non_pinned \in 0..(N - 1) /\ _evaluated_non_pinned # N
  BY <1>1 DEF FitInv, Ask, TypeOK, SomeShown
<1> DEFINE shown(n) == TokensOf(Windowed(drop_oldest_non_pinned(entries, n)))
           d == turns_to_drop(entries, _dropped_non_pinned)
           measured == entries[N].usage
<1>3. PICK r \in ResponseTokens :
        /\ PinnedTokens + shown(_dropped_non_pinned) <= measured + r
        /\ shown(N - 1) <= RequestTokens + r + TokensPerImage
  BY <1>1, <1>2 DEF FitInv, Outgrown
<1>4. /\ d \in 0..(N - 1)
      /\ d = N - 1 \/ measured + shown(d) <= Budget + shown(_dropped_non_pinned)
  BY <1>1, <1>2, DropsEnough
<1>5. request'.tokens = PinnedTokens + shown(d) + RequestTokens + frames * TokensPerImage
  <2>1. _dropped_non_pinned' = d
    BY <1>1, <1>2 DEF Ask, _refresh_truncation
  <2>2. request'.tokens = PinnedTokens + TokensOf(render) + RequestTokens + frames * TokensPerImage
    BY DEF Ask
  <2> HIDE DEF d
  <2>3. render = Windowed(drop_oldest_non_pinned(entries, d))
    BY <2>1 DEF render
  <2> QED  BY <2>2, <2>3
<1> HIDE DEF d
<1>6. ASSUME NEW n \in 0..(N - 1)
      PROVE  shown(n) \in Nat
  <2>1. drop_oldest_non_pinned(entries, n) \in Seq(Entry)
    BY <1>1, <1>2, <1>6 DEF drop_oldest_non_pinned
  <2> QED  BY <2>1, WindowedTurns, SizeIsNat
<1>7. /\ shown(d) \in Nat /\ shown(_dropped_non_pinned) \in Nat
      /\ measured \in Nat /\ r \in Nat /\ Budget \in Int /\ PinnedTokens \in Nat
  <2>1. shown(d) \in Nat /\ shown(_dropped_non_pinned) \in Nat
    BY <1>2, <1>4, <1>6
  <2>2. measured \in Nat
    <3>1. entries[N] \in Entry
      BY <1>1, <1>2
    <3> QED  BY <3>1 DEF Entry
  <2>3. r \in Nat /\ Budget \in Int /\ PinnedTokens \in Nat
    BY TurnConstants DEF Budget
  <2> QED  BY <2>1, <2>2, <2>3
<1> HIDE DEF measured, shown
<1>8. \/ PinnedTokens + shown(d) <= Budget + r
      \/ shown(d) <= RequestTokens + r + TokensPerImage
  <2>1. CASE d = N - 1
    BY <1>3, <2>1
  <2>2. CASE measured + shown(d) <= Budget + shown(_dropped_non_pinned)
    BY <1>3, <1>7, <2>2
  <2> QED  BY <1>4, <2>1, <2>2
<1>9. PinnedTokens + shown(d) + RequestTokens + frames * TokensPerImage <= InputTokensLimit
  BY <1>7, <1>8, RoomIsEnough
<1> QED  BY <1>5, <1>9

\* The turn that joins adds its answer to what was measured with its request.
LEMMA FinishOutgrows ==
  ASSUME FitInv, Finish
  PROVE  /\ entries' \in Seq(Entry) /\ Len(entries') = Len(entries) + 1
         /\ Outgrown'
<1> DEFINE turn == [messages |-> result.messages, text |-> result.text,
                    frames |-> IF result.messages = <<>> THEN 0 ELSE request.frames,
                    usage |-> IF result.messages = <<>> THEN 0 ELSE result.usage]
           shown(es, n) == TokensOf(Windowed(drop_oldest_non_pinned(es, n)))
<1>1. PICK N \in Nat : N = Len(entries)
  BY DEF FitInv, TypeOK
<1>2. /\ phase = "dispatched" /\ phase' = "waiting" /\ entries \in Seq(Entry)
      /\ entries' = Joined(turn) /\ UNCHANGED request
  BY DEF FitInv, TypeOK, Finish
<1>3. /\ request.frames \in Frames /\ request.frames \in Nat
      /\ request.tokens = PinnedTokens + TokensOf(request.history) + RequestTokens
                          + request.frames * TokensPerImage
      /\ request.history = Windowed(drop_oldest_non_pinned(entries, _dropped_non_pinned))
      /\ _evaluated_non_pinned = N
  <2>1. InTurn
    BY <1>2 DEF InTurn
  <2>2. request.frames \in Frames
    BY <2>1 DEF FitInv, AsCounted
  <2>3. request.frames \in Nat
    BY <2>2, FrameCost
  <2> QED  BY <1>1, <2>1, <2>2, <2>3 DEF FitInv, AsCounted, RecordInv, AsRendered
<1>4. turn \in Entry
  BY <1>3 DEF FitInv, TypeOK, Entry
<1>5. PICK d \in 0..N : d = _dropped_non_pinned /\ d = _dropped_non_pinned'
  BY <1>1, <1>3 DEF FitInv, TypeOK, Finish, _refresh_truncation
<1>6. turn.usage > 0 =>
        /\ turn.usage = request.tokens
        /\ turn.frames = request.frames
        /\ \E r \in ResponseTokens : turn.text = RequestTokens + r
  BY <1>2 DEF FitInv, AsMeasured
<1> HIDE DEF turn
<1>7. /\ entries' \in Seq(Entry) /\ Len(entries') = N + 1
      /\ entries'[N + 1].usage = turn.usage
  BY <1>1, <1>2, <1>4, JoinedTurns
<1>8. ASSUME turn.usage > 0
      PROVE  \E r \in ResponseTokens :
               /\ PinnedTokens + shown(entries', d) <= turn.usage + r
               /\ shown(entries', N) <= RequestTokens + r + TokensPerImage
  <2> DEFINE frame == IF request.frames > 0 THEN TokensPerImage ELSE 0
  <2>1. PICK r \in ResponseTokens : turn.text = RequestTokens + r
    BY <1>6, <1>8
  <2>2. /\ turn.usage = PinnedTokens + shown(entries, d) + RequestTokens
                        + request.frames * TokensPerImage
        /\ frame = IF turn.frames > 0 THEN TokensPerImage ELSE 0
    BY <1>3, <1>5, <1>6, <1>8
  <2>3. ASSUME NEW n \in 0..N
        PROVE  /\ shown(entries', n) \in Nat /\ shown(entries, n) \in Nat
               /\ shown(entries', n) <= shown(entries, n) + turn.text + frame
    BY <1>1, <1>2, <1>4, <2>2, JoinGrows
  <2>4. shown(entries, N) = 0
    <3>1. drop_oldest_non_pinned(entries, N) = <<>>
      BY <1>1, <1>2 DEF drop_oldest_non_pinned
    <3>2. TokensOf(Windowed(<<>>)) = 0
      BY NothingShown
    <3> QED  BY <3>1, <3>2
  <2>5. /\ frame <= request.frames * TokensPerImage /\ request.frames * TokensPerImage \in Nat
        /\ frame <= TokensPerImage /\ frame \in Nat
    BY <1>3, FrameCost, TurnConstants
  <2>6. /\ r \in Nat /\ RequestTokens \in Nat /\ PinnedTokens \in Nat /\ TokensPerImage \in Nat
        /\ N \in 0..N
    BY TurnConstants
  <2> HIDE DEF shown, frame
  <2>7. PICK cost \in Nat : cost = request.frames * TokensPerImage
    BY <2>5
  <2>8. /\ shown(entries', d) \in Nat /\ shown(entries, d) \in Nat
        /\ shown(entries', d) <= shown(entries, d) + turn.text + frame
    BY <2>3
  <2>9. /\ shown(entries', N) \in Nat
        /\ shown(entries', N) <= turn.text + frame
    BY <2>1, <2>3, <2>4, <2>5, <2>6
  <2>10. PinnedTokens + shown(entries', d) <= turn.usage + r
    BY <2>1, <2>2, <2>5, <2>6, <2>7, <2>8
  <2>11. shown(entries', N) <= RequestTokens + r + TokensPerImage
    BY <2>1, <2>5, <2>6, <2>9
  <2> QED  BY <2>10, <2>11
<1>9. Outgrown'
  <2>1. Len(entries') = N + 1 /\ Len(entries') - 1 = N
    BY <1>7
  <2>2. PICK new : new = entries'
    OBVIOUS
  <2>3. PICK dropped : dropped = _dropped_non_pinned'
    OBVIOUS
  <2>4. Outgrown' <=>
          (phase' = "waiting" /\ new # <<>> /\ new[Len(new)].usage > 0 =>
            \E r \in ResponseTokens :
              /\ PinnedTokens + shown(new, dropped) <= new[Len(new)].usage + r
              /\ shown(new, Len(new) - 1) <= RequestTokens + r + TokensPerImage)
    BY <2>2, <2>3 DEF Outgrown
  <2> HIDE DEF shown
  <2> QED  BY <1>5, <1>7, <1>8, <2>1, <2>2, <2>3, <2>4
<1> QED  BY <1>1, <1>7, <1>9

Results == [output : Outputs, errors : SUBSET Faults, found : SUBSET Faults,
            messages : Shapes, text : Nat, usage : Nat]

\* A recovery counts the answer that was captured.
LEMMA RecoveryCounts ==
  ASSUME request.tokens \in Nat, NEW e \in Exceptions, NEW size \in ResponseTokens,
         CanHandle(e) # {}
  PROVE  LET r == Recovered(e, size)
         IN /\ r \in Results
            /\ r.messages # <<>> /\ r.usage > 0 =>
                 r.usage = request.tokens /\ r.text = RequestTokens + size
<1> DEFINE strategy == Strategies[Min(CanHandle(e))]
           r == Recovered(e, size)
<1>1. strategy = GuardrailViolationRecovery \/ strategy.error \in Explained
  BY StrategyTells
<1>2. GuardrailViolationRecovery.error \in Faults /\ Explained \subseteq Faults
  BY DEF GuardrailViolationRecovery, Strategy, Faults, Explained
<1>3. PICK error \in Faults : error = strategy.error
  BY <1>1, <1>2
<1>4. PICK refused \in BOOLEAN : refused = (strategy = GuardrailViolationRecovery)
  OBVIOUS
<1>5. r = [output   |-> IF refused THEN "send_message" ELSE "do_nothing",
           errors   |-> {error},
           found    |-> {error},
           messages |-> IF refused THEN <<>> ELSE <<"request", "response">>,
           text     |-> IF refused THEN 0 ELSE RequestTokens + (IF e.responded THEN size ELSE 0),
           usage    |-> IF e.responded THEN request.tokens ELSE 0]
  BY <1>3, <1>4 DEF Recovered
<1>6. /\ RequestTokens \in Nat /\ size \in Nat /\ RequestTokens + size \in Nat
      /\ RequestTokens + 0 \in Nat
  BY TurnConstants
<1> HIDE DEF r, strategy
<1>7. r \in Results
  BY <1>5, <1>6 DEF Results, Outputs, Shapes
<1>8. r.messages # <<>> /\ r.usage > 0 =>
        r.usage = request.tokens /\ r.text = RequestTokens + size
  BY <1>5, <1>6
<1> QED  BY <1>7, <1>8 DEF r

LEMMA FitKept == FitInv /\ [Next]_vars => FitInv'
<1> SUFFICES ASSUME FitInv, [Next]_vars PROVE FitInv'
  OBVIOUS
<1>0. RecordInv'
  BY RecordKept DEF FitInv
<1>1. ASSUME NEW frames \in Frames, Ask(frames) PROVE FitInv'
  <2>1. /\ _dropped_non_pinned' \in 0..Len(entries) /\ _evaluated_non_pinned' = Len(entries)
        /\ entries # <<>> => _dropped_non_pinned' < Len(entries)
        /\ render \in Seq(Entry) /\ TokensOf(render) \in Nat
    BY <1>1, RenderShows DEF FitInv, Ask
  <2>2. /\ frames \in 0..MaxObservations /\ frames * TokensPerImage \in Nat
        /\ PinnedTokens \in Nat /\ RequestTokens \in Nat /\ MaxObservations \in Nat
    BY FrameCost, TurnConstants
  <2>3. PICK cost \in Nat : cost = frames * TokensPerImage
    BY <2>2
  <2>4. PICK tokens \in Nat :
          tokens = PinnedTokens + TokensOf(render) + RequestTokens + frames * TokensPerImage
    BY <2>1, <2>2, <2>3
  <2>5. PICK told \in SUBSET Faults : told = IF Alone THEN {} ELSE feedback
    BY DEF FitInv, TypeOK
  <2>6. request' = [history |-> render, omitted |-> _dropped_non_pinned', frames |-> frames,
                    told |-> told, tokens |-> tokens]
    BY <1>1, <2>4, <2>5 DEF Ask
  <2>7. request' \in [history : Seq(Entry), omitted : Nat, frames : 0..MaxObservations,
                      told : SUBSET Faults, tokens : Nat]
    <3>1. _dropped_non_pinned' \in Nat
      BY <2>1 DEF FitInv, TypeOK
    <3> QED  BY <2>1, <2>2, <2>6, <3>1
  <2>8. TypeOK'
    <3>1. phase' = "asked" /\ feedback' = {} /\ UNCHANGED <<entries, result, step>>
      BY <1>1 DEF Ask
    <3>2. /\ Len(entries) \in Nat /\ Len(entries) \in 0..Len(entries)
      BY DEF FitInv, TypeOK
    <3> QED  BY <2>1, <2>7, <3>1, <3>2 DEF FitInv, TypeOK
  <2>9. SomeShown' /\ AsMeasured' /\ Outgrown'
    BY <1>1, <2>1 DEF Ask, SomeShown, AsMeasured, Outgrown
  <2>10. AsCounted'
    <3>1. /\ request'.history = render /\ request'.frames = frames /\ request'.tokens = tokens
      BY <2>6
    <3>2. UNCHANGED entries /\ Len(entries) < MaxTurns
      BY <1>1 DEF Ask
    <3>3. PICK history : history = render
      OBVIOUS
    <3> QED  BY <2>4, <3>1, <3>2, <3>3 DEF AsCounted
  <2>11. PromptFits'
    BY <1>1, AskFits
  <2> QED  BY <1>0, <2>8, <2>9, <2>10, <2>11 DEF FitInv
<1>2. ASSUME phase' \in {"answered", "dispatched", "failed"}, InTurn,
             UNCHANGED <<conversation, feedback, request, step>>,
             result' \in Results, AsMeasured'
      PROVE  FitInv'
  <2>1. TypeOK'
    BY <1>2 DEF FitInv, TypeOK, Results, conversation
  <2>2. SomeShown' /\ Outgrown' /\ PromptFits'
    BY <1>2 DEF FitInv, SomeShown, Outgrown, PromptFits, conversation
  <2>3. AsCounted'
    BY <1>2 DEF FitInv, AsCounted, conversation
  <2> QED  BY <1>0, <1>2, <2>1, <2>2, <2>3 DEF FitInv
<1>3. /\ result \in Results /\ request.tokens \in Nat
      /\ result = [output |-> result.output, errors |-> result.errors, found |-> result.found,
                   messages |-> result.messages, text |-> result.text, usage |-> result.usage]
  BY DEF FitInv, TypeOK, Results
<1>4. ASSUME NEW output \in AllowedOutputs, NEW size \in ResponseTokens,
             NEW found \in {{}, {"malformed_tag_structure"}}, Answer(output, size, found)
      PROVE  FitInv'
  <2>1. /\ phase = "asked" /\ phase' = "answered"
        /\ result' = [output |-> output, errors |-> found, found |-> found,
                      messages |-> <<"request", "response">>, text |-> RequestTokens + size,
                      usage |-> request.tokens]
    BY <1>4 DEF Answer
  <2>2. output \in Outputs /\ found \subseteq Faults /\ RequestTokens + size \in Nat
        /\ <<"request", "response">> \in Shapes
    BY TurnConstants DEF AllowedOutputs, Outputs, Faults, Shapes
  <2>3. result' \in Results
    BY <1>3, <2>1, <2>2 DEF Results
  <2>4. AsMeasured'
    BY <1>4, <2>1 DEF Answer, AsMeasured
  <2> QED  BY <1>2, <1>4, <2>1, <2>3, <2>4 DEF Answer, InTurn
<1>5. ASSUME NEW e \in Exceptions, NEW size \in ResponseTokens, Recover(e, size)
      PROVE  FitInv'
  <2>1. /\ phase = "asked" /\ phase' = "answered" /\ CanHandle(e) # {}
        /\ result' = Recovered(e, size)
        /\ UNCHANGED <<conversation, feedback, request, step>>
    BY <1>5 DEF Recover
  <2>2. /\ result' \in Results
        /\ result'.messages # <<>> /\ result'.usage > 0 =>
             result'.usage = request.tokens /\ result'.text = RequestTokens + size
    BY <1>3, <2>1, RecoveryCounts
  <2>3. AsMeasured'
    BY <2>1, <2>2 DEF AsMeasured
  <2> QED  BY <1>2, <2>1, <2>2, <2>3 DEF InTurn
<1>6. CASE (\E e \in Exceptions : Raise(e)) \/ DispatchFails
  <2>1. /\ phase \in {"asked", "answered"} /\ phase' = "failed"
        /\ UNCHANGED <<conversation, feedback, request, result, step>>
    BY <1>6 DEF Raise, DispatchFails
  <2> QED  BY <1>2, <1>3, <2>1 DEF InTurn, AsMeasured
<1>7. ASSUME NEW fault \in Locations, Dispatch(fault) PROVE FitInv'
  <2>1. /\ phase = "answered" /\ phase' = "dispatched"
        /\ UNCHANGED <<conversation, feedback, request, step>>
    BY <1>7 DEF Dispatch
  <2>2. \/ result' = result
        \/ result' = [result EXCEPT !.errors = {}]
        \/ result' = [result EXCEPT !.output = "do_nothing", !.errors = fault,
                                    !.found = @ \cup fault]
    BY <1>7 DEF Dispatch, _send_game_action
  <2>3. fault \subseteq Faults
    BY DEF Locations, Faults
  <2>4. /\ result' \in Results /\ result'.messages = result.messages
        /\ result'.text = result.text /\ result'.usage = result.usage
    <3>1. CASE result' = result
      BY <1>3, <3>1
    <3>2. CASE result' = [result EXCEPT !.errors = {}]
      BY <1>3, <3>2 DEF Results
    <3>3. CASE result' = [result EXCEPT !.output = "do_nothing", !.errors = fault,
                                        !.found = @ \cup fault]
      BY <1>3, <2>3, <3>3 DEF Results, Outputs
    <3> QED  BY <2>2, <3>1, <3>2, <3>3
  <2>5. AsMeasured'
    BY <2>1, <2>4 DEF FitInv, AsMeasured
  <2> QED  BY <1>2, <2>1, <2>4, <2>5 DEF InTurn
<1>8. CASE Finish
  <2>1. /\ entries' \in Seq(Entry) /\ Len(entries') = Len(entries) + 1
        /\ Outgrown'
    BY <1>8, FinishOutgrows
  <2>2. /\ phase = "dispatched" /\ phase' = "waiting" /\ result' = NoResult
        /\ feedback' = IF EnableNobf THEN feedback \cup (result.errors \cap Explained) ELSE feedback
        /\ UNCHANGED request
        /\ step' = [history |-> render, omitted |-> _dropped_non_pinned', output |-> result.output,
                    errors |-> result.errors, found |-> result.found]
        /\ _refresh_truncation
    BY <1>8 DEF Finish
  <2>3. PICK N \in Nat : N = Len(entries) /\ N < MaxTurns
    BY <2>2 DEF FitInv, TypeOK, AsCounted, InTurn
  <2>4. /\ _dropped_non_pinned' \in 0..N /\ _evaluated_non_pinned' = N
        /\ render \in Seq(Entry)
    BY <2>2, <2>3, RenderShows DEF FitInv
  <2>5. TypeOK'
    <3>1. feedback' \subseteq Faults
      BY <2>2 DEF FitInv, TypeOK, Explained
    <3>2. _dropped_non_pinned' \in Nat
      BY <2>3, <2>4
    <3>3. step' \in [history : Seq(Entry), omitted : Nat, output : Outputs,
                     errors : SUBSET Faults, found : SUBSET Faults]
      BY <1>3, <2>2, <2>4, <3>2 DEF Results
    <3>4. NoResult \in Results
      BY DEF NoResult, Results, Outputs, Faults, Shapes
    <3>5. /\ Len(entries') <= MaxTurns /\ 0..N \subseteq 0..(N + 1) /\ N \in 0..(N + 1)
          /\ Len(entries') = N + 1
      BY <2>1, <2>3, TurnConstants
    <3> QED  BY <2>1, <2>2, <2>4, <3>1, <3>3, <3>4, <3>5 DEF FitInv, TypeOK, Results
  <2>6. SomeShown'
    BY <2>1, <2>3, <2>4 DEF SomeShown
  <2>7. AsCounted' /\ AsMeasured' /\ PromptFits'
    BY <2>2 DEF AsCounted, AsMeasured, PromptFits, InTurn
  <2> QED  BY <1>0, <2>1, <2>5, <2>6, <2>7 DEF FitInv
<1>9. CASE Reflect
  <2>1. /\ phase = "waiting" /\ phase' \in {"over", "failed"} /\ _refresh_truncation
        /\ UNCHANGED <<entries, feedback, request, result>>
        /\ \/ step' = [history |-> render, omitted |-> _dropped_non_pinned',
                       output |-> "send_message", errors |-> {}, found |-> {}]
           \/ UNCHANGED step
    BY <1>9 DEF Reflect
  <2>2. PICK N \in Nat : N = Len(entries)
    BY DEF FitInv, TypeOK
  <2>3. /\ _dropped_non_pinned' \in 0..N /\ _evaluated_non_pinned' = N
        /\ entries # <<>> => _dropped_non_pinned' < N
        /\ render \in Seq(Entry)
    BY <2>1, <2>2, RenderShows DEF FitInv
  <2>4. TypeOK'
    <3>1. _dropped_non_pinned' \in Nat /\ N \in 0..N
      BY <2>2, <2>3
    <3>2. step' \in [history : Seq(Entry), omitted : Nat, output : Outputs,
                     errors : SUBSET Faults, found : SUBSET Faults]
      BY <2>1, <2>3, <3>1 DEF FitInv, TypeOK, Outputs
    <3> QED  BY <2>1, <2>2, <2>3, <3>1, <3>2 DEF FitInv, TypeOK
  <2>5. SomeShown'
    BY <2>1, <2>2, <2>3 DEF SomeShown
  <2>6. AsCounted' /\ AsMeasured' /\ PromptFits' /\ Outgrown'
    BY <2>1 DEF AsCounted, AsMeasured, PromptFits, Outgrown, InTurn
  <2> QED  BY <1>0, <2>4, <2>5, <2>6 DEF FitInv
<1>10. CASE UNCHANGED vars
  <2>1. /\ UNCHANGED <<phase, feedback, request, result, step>>
        /\ UNCHANGED <<entries, _dropped_non_pinned, _evaluated_non_pinned>>
    BY <1>10 DEF vars, conversation
  <2>2. TypeOK'
    BY <2>1 DEF FitInv, TypeOK
  <2>3. SomeShown' /\ AsMeasured' /\ PromptFits'
    BY <2>1 DEF FitInv, SomeShown, AsMeasured, PromptFits
  <2>4. AsCounted' /\ Outgrown'
    BY <2>1 DEF FitInv, AsCounted, Outgrown, InTurn
  <2> QED  BY <1>0, <2>2, <2>3, <2>4 DEF FitInv
<1> QED  BY <1>1, <1>4, <1>5, <1>6, <1>7, <1>8, <1>9, <1>10 DEF Next

LEMMA FitInit == Init => FitInv
<1> SUFFICES ASSUME Init PROVE FitInv
  OBVIOUS
<1>1. <<>> \in Seq(Entry) /\ Len(<<>>) = 0 /\ <<>> \in Shapes
  BY DEF Shapes
<1>2. TypeOK
  <2>1. NoResult \in [output : Outputs, errors : SUBSET Faults, found : SUBSET Faults,
                      messages : Shapes, text : Nat, usage : Nat]
    BY <1>1 DEF NoResult, Outputs
  <2>2. /\ NoRequest \in [history : Seq(Entry), omitted : Nat, frames : 0..MaxObservations,
                          told : SUBSET Faults, tokens : Nat]
        /\ NoStep \in [history : Seq(Entry), omitted : Nat, output : Outputs,
                       errors : SUBSET Faults, found : SUBSET Faults]
    BY <1>1, TurnConstants DEF NoRequest, NoStep, Outputs
  <2>3. /\ phase = "waiting" /\ entries = <<>> /\ _dropped_non_pinned = 0
        /\ _evaluated_non_pinned = 0 /\ feedback = {} /\ request = NoRequest
        /\ result = NoResult /\ step = NoStep
    BY DEF Init
  <2>4. /\ entries \in Seq(Entry) /\ Len(entries) <= MaxTurns
        /\ _dropped_non_pinned \in 0..Len(entries) /\ _evaluated_non_pinned \in 0..Len(entries)
    <3>1. MaxTurns \in Nat
      BY TurnConstants
    <3>2. Len(entries) = 0 /\ entries \in Seq(Entry)
      BY <1>1, <2>3
    <3> QED  BY <2>3, <3>1, <3>2
  <2>5. /\ phase \in {"waiting", "asked", "answered", "dispatched", "failed", "over"}
        /\ feedback \subseteq Faults
    BY <2>3
  <2> QED  BY <2>1, <2>2, <2>3, <2>4, <2>5 DEF TypeOK
<1>3. RecordInv
  BY DEF Init, RecordInv, AsRendered, RecordedAsSent, InTurn, NoRequest, NoStep
<1>4. SomeShown /\ AsCounted /\ AsMeasured /\ Outgrown /\ PromptFits
  BY DEF Init, SomeShown, AsCounted, AsMeasured, Outgrown, PromptFits, InTurn
<1> QED  BY <1>2, <1>3, <1>4 DEF FitInv

\* After a turn that was measured, the next prompt is within the limit of the model for any
\* sizes of answers and requests that leave room to play: what truncation reserves is enough,
\* whatever was dropped before and however many turns the window shows with their frame.
THEOREM PromptsFit == Spec => []PromptFits
BY FitInit, FitKept, PTL DEF Spec, FitInv

\* And what the turns, the requests and the records hold is of its type throughout.
THEOREM TurnsTyped == Spec => []TypeOK
BY FitInit, FitKept, PTL DEF Spec, FitInv
-----------------------------------------------------------------------------
(* The parser of the answers: sequences of pieces. *)

\* flat[i] is what the first i of seqs make when put one behind the other.
Flattens(flat, seqs) ==
    flat[1] = seqs[1] /\ \A i \in 2..Len(seqs) : flat[i] = flat[i - 1] \o seqs[i]

\* The concatenation, one sequence after the other.
LEMMA FlattenSeqByParts ==
    ASSUME NEW E, NEW seqs \in Seq(Seq(E)), seqs # <<>>
    PROVE  \E flat \in [1..Len(seqs) -> Seq(E)] :
               Flattens(flat, seqs) /\ FlattenSeq(seqs) = flat[Len(seqs)]
<1> DEFINE L == Len(seqs)
           Longer(n, s) == IF n + 1 \in 1..L THEN s \o seqs[n + 1] ELSE s
           rule == [n \in Nat |-> [s \in Seq(E) |-> Longer(n, s)]]
           flatten[i \in 1..L] == IF i = 1 THEN seqs[i] ELSE flatten[i - 1] \o seqs[i]
<1>1. L \in Nat /\ L # 0 /\ \A i \in 1..L : seqs[i] \in Seq(E)
  OBVIOUS
<1>2. rule \in [Nat -> [Seq(E) -> Seq(E)]]
  <2>1. \A n \in Nat, s \in Seq(E) : Longer(n, s) \in Seq(E)
    <3> SUFFICES ASSUME NEW n \in Nat, NEW s \in Seq(E)
                 PROVE  Longer(n, s) \in Seq(E)
      OBVIOUS
    <3>1. CASE n + 1 \in 1..L
      <4>1. seqs[n + 1] \in Seq(E)
        BY <3>1, <1>1
      <4>2. s \o seqs[n + 1] \in Seq(E)
        BY <4>1
      <4> QED
        BY <4>2, <3>1
    <3>2. CASE n + 1 \notin 1..L
      BY <3>2
    <3> QED
      BY <3>1, <3>2
  <2> HIDE DEF Longer
  <2> QED
    BY <2>1
<1>3. \A n \in Nat, s \in Seq(E) : rule[n][s] = Longer(n, s)
  OBVIOUS
<1>4. \E g : g = [i \in 1..L |-> IF i = 1 THEN seqs[i] ELSE g[i - 1] \o seqs[i]]
  <2> DEFINE V == Seq(E)
             e == <<>>
  <2>1. e \in V /\ rule \in [Nat -> [V -> V]]
    BY <1>2
  <2> HIDE DEF V, e, rule, L, flatten
  <2>2. PICK h \in [0..L -> V] : Unrolls(h, e, rule, L)
    BY <1>1, <2>1, Recursion
  <2>3. \A i \in 1..L : h[i - 1] \in Seq(E) /\ h[i] = h[i - 1] \o seqs[i]
    <3> SUFFICES ASSUME NEW i \in 1..L
                 PROVE  h[i - 1] \in Seq(E) /\ h[i] = h[i - 1] \o seqs[i]
      OBVIOUS
    <3>1. i - 1 \in 0..(L - 1) /\ i - 1 \in 0..L /\ i - 1 \in Nat /\ (i - 1) + 1 = i
      BY <1>1
    <3>2. h[i] = rule[i - 1][h[i - 1]]
      BY <3>1, <2>2 DEF Unrolls
    <3>3. h[i - 1] \in Seq(E)
      BY <3>1, <2>2 DEF V
    <3>4. rule[i - 1][h[i - 1]] = Longer(i - 1, h[i - 1])
      BY <3>1, <3>3, <1>3
    <3> QED
      BY <3>1, <3>2, <3>3, <3>4
  <2>4. L >= 1 => h[1] = seqs[1]
    <3> SUFFICES ASSUME L >= 1
                 PROVE  h[1] = seqs[1]
      OBVIOUS
    <3>1. h[0] = <<>>
      BY <2>2 DEF Unrolls, e
    <3>2. 1 \in 1..L /\ 1 - 1 = 0
      BY <1>1
    <3>3. h[1] = <<>> \o seqs[1]
      BY <3>1, <3>2, <2>3
    <3>4. seqs[1] \in Seq(E)
      BY <3>2, <1>1
    <3> QED
      BY <3>3, <3>4
  <2> DEFINE g == [i \in 1..L |-> h[i]]
  <2>5. ASSUME NEW i \in 1..L
        PROVE  g[i] = IF i = 1 THEN seqs[i] ELSE g[i - 1] \o seqs[i]
    <3>1. CASE i = 1
      BY <3>1, <2>4, <1>1
    <3>2. CASE i # 1
      <4>1. i - 1 \in 1..L
        BY <3>2, <1>1
      <4> QED
        BY <3>2, <4>1, <2>3
    <3> QED
      BY <3>1, <3>2
  <2>6. g = [i \in 1..L |-> IF i = 1 THEN seqs[i] ELSE g[i - 1] \o seqs[i]]
    BY <2>5
  <2> QED
    BY <2>6
<1>5. flatten = [i \in 1..L |-> IF i = 1 THEN seqs[i] ELSE flatten[i - 1] \o seqs[i]]
  BY <1>4
<1>6. FlattenSeq(seqs) = flatten[L]
  BY <1>1 DEF FlattenSeq
<1> HIDE DEF flatten, L
<1>7. Flattens(flatten, seqs)
  <2>1. flatten[1] = seqs[1]
    BY <1>1, <1>5
  <2>2. ASSUME NEW i \in 2..L
        PROVE  flatten[i] = flatten[i - 1] \o seqs[i]
    <3>1. i \in 1..L /\ i # 1
      BY <1>1
    <3> QED
      BY <3>1, <1>5
  <2> QED
    BY <2>1, <2>2 DEF Flattens, L
<1> DEFINE Inside == {n \in Nat : n \in 1..L => flatten[n] \in Seq(E)}
<1>8. 0 \in Inside
  OBVIOUS
<1>9. ASSUME NEW n \in Nat, n \in Inside
      PROVE  n + 1 \in Inside
  <2>1. SUFFICES ASSUME n + 1 \in 1..L
                 PROVE  flatten[n + 1] \in Seq(E)
    OBVIOUS
  <2>2. seqs[n + 1] \in Seq(E)
    BY <1>1, <2>1
  <2>3. CASE n = 0
    BY <2>2, <2>3, <1>5, <2>1
  <2>4. CASE n # 0
    <3>1. n + 1 # 1 /\ (n + 1) - 1 = n /\ n \in 1..L
      BY <2>1, <2>4, <1>1
    <3>2. flatten[n + 1] = flatten[n] \o seqs[n + 1]
      BY <2>1, <3>1, <1>5
    <3>3. flatten[n] \in Seq(E)
      BY <3>1, <1>9
    <3> QED
      BY <3>2, <3>3, <2>2
  <2> QED
    BY <2>3, <2>4
<1> HIDE DEF Inside
<1>10. Nat \subseteq Inside
  BY <1>8, <1>9, SetInduction
<1>11. \A n \in 1..L : flatten[n] \in Seq(E)
  BY <1>10, <1>1 DEF Inside
<1>12. flatten \in [1..L -> Seq(E)]
  BY <1>5, <1>11
<1> QED
  BY <1>6, <1>7, <1>12 DEF L

\* A sequence of N pieces and what it holds, none of them twice.
Holds(s, E, set) == s \in Seq(E) /\ ToSet(s) = set
Once(s, E, set) == Holds(s, E, set) /\ IsInjective(s)

\* Its places, by number.
Lists(s, N, set) ==
  /\ \A i \in 1..N : s[i] \in set
  /\ \A x \in set : \E i \in 1..N : s[i] = x

LEMMA HoldsLists ==
  ASSUME NEW E, NEW s \in Seq(E), NEW set
  PROVE  Holds(s, E, set) <=> Lists(s, Len(s), set)
<1>1. DOMAIN s = 1..Len(s)
  OBVIOUS
<1>2. Lists(s, Len(s), set) <=> ToSet(s) = set
  <2>1. ToSet(s) = {s[i] : i \in 1..Len(s)}
    BY <1>1 DEF ToSet
  <2> QED  BY <2>1 DEF Lists
<1> QED  BY <1>2 DEF Holds

LEMMA HoldsBoth ==
  ASSUME NEW E, NEW s, NEW t, NEW A, NEW B, Holds(s, E, A), Holds(t, E, B)
  PROVE  Holds(s \o t, E, A \union B)
<1>1. PICK m \in Nat, n \in Nat : m = Len(s) /\ n = Len(t)
  BY DEF Holds
<1>2. /\ s \o t \in Seq(E) /\ Len(s \o t) = m + n
      /\ \A i \in 1..m : (s \o t)[i] = s[i]
      /\ \A i \in 1..n : (s \o t)[m + i] = t[i]
  BY <1>1 DEF Holds
<1>3. PICK u : u = s \o t
  OBVIOUS
<1>4. Lists(s, m, A) /\ Lists(t, n, B)
  BY <1>1, HoldsLists DEF Holds
<1>5. ASSUME NEW i \in 1..(m + n)
      PROVE  u[i] \in A \union B
  <2>1. CASE i \in 1..m
    BY <1>2, <1>3, <1>4, <2>1 DEF Lists
  <2>2. CASE i \notin 1..m
    <3>1. PICK j \in 1..n : i = m + j
      <4>1. i - m \in 1..n /\ i = m + (i - m)
        BY <2>2
      <4> QED  BY <4>1
    <3> QED  BY <1>2, <1>3, <1>4, <3>1 DEF Lists
  <2> QED  BY <2>1, <2>2
<1>6. ASSUME NEW x \in A \union B
      PROVE  \E i \in 1..(m + n) : u[i] = x
  <2>1. CASE x \in A
    <3>1. PICK i \in 1..m : s[i] = x
      BY <1>4, <2>1 DEF Lists
    <3>2. i \in 1..(m + n)
      OBVIOUS
    <3> QED  BY <1>2, <1>3, <3>1, <3>2
  <2>2. CASE x \in B
    <3>1. PICK i \in 1..n : t[i] = x
      BY <1>4, <2>2 DEF Lists
    <3>2. m + i \in 1..(m + n)
      OBVIOUS
    <3> QED  BY <1>2, <1>3, <3>1, <3>2
  <2> QED  BY <2>1, <2>2
<1>7. Lists(u, m + n, A \union B)
  BY <1>5, <1>6 DEF Lists
<1> QED  BY <1>2, <1>3, <1>7, HoldsLists

LEMMA OnceBoth ==
  ASSUME NEW E, NEW s, NEW t, NEW A, NEW B, Once(s, E, A), Once(t, E, B), A \cap B = {}
  PROVE  Once(s \o t, E, A \union B)
<1>1. PICK m \in Nat, n \in Nat : m = Len(s) /\ n = Len(t) /\ DOMAIN s = 1..m /\ DOMAIN t = 1..n
  BY DEF Once, Holds
<1>2. PICK u : u = s \o t
  OBVIOUS
<1>3. /\ DOMAIN u = 1..(m + n)
      /\ \A i \in 1..m : u[i] = s[i] /\ u[i] \in A
      /\ \A i \in 1..n : u[m + i] = t[i] /\ u[m + i] \in B
  <2>1. Lists(s, m, A) /\ Lists(t, n, B)
    BY <1>1, HoldsLists DEF Once, Holds
  <2>2. /\ DOMAIN u = 1..(m + n)
        /\ \A i \in 1..m : u[i] = s[i]
        /\ \A i \in 1..n : u[m + i] = t[i]
    BY <1>1, <1>2 DEF Once, Holds
  <2> QED  BY <2>1, <2>2 DEF Lists
<1>4. \A i \in 1..(m + n) : i \in 1..m \/ \E j \in 1..n : i = m + j
  <2>1. \A i \in 1..(m + n) : i \in 1..m \/ (i - m \in 1..n /\ i = m + (i - m))
    OBVIOUS
  <2> QED  BY <2>1
<1>5. /\ \A i \in 1..m, j \in 1..m : s[i] = s[j] => i = j
      /\ \A i \in 1..n, j \in 1..n : t[i] = t[j] => i = j
  BY <1>1 DEF Once, IsInjective
<1>6. ASSUME NEW a \in 1..(m + n), NEW b \in 1..(m + n), u[a] = u[b]
      PROVE  a = b
  <2>1. CASE a \in 1..m /\ b \in 1..m
    BY <1>3, <1>5, <1>6, <2>1
  <2>2. CASE a \in 1..m /\ b \notin 1..m
    <3>1. PICK j \in 1..n : b = m + j
      BY <1>4, <2>2
    <3>2. u[a] \in A /\ u[b] \in B
      BY <1>3, <2>2, <3>1
    <3> QED  BY <1>6, <3>2
  <2>3. CASE a \notin 1..m /\ b \in 1..m
    <3>1. PICK j \in 1..n : a = m + j
      BY <1>4, <2>3
    <3>2. u[b] \in A /\ u[a] \in B
      BY <1>3, <2>3, <3>1
    <3> QED  BY <1>6, <3>2
  <2>4. CASE a \notin 1..m /\ b \notin 1..m
    <3>1. PICK i \in 1..n : a = m + i
      BY <1>4, <2>4
    <3>2. PICK j \in 1..n : b = m + j
      BY <1>4, <2>4
    <3>3. t[i] = t[j]
      BY <1>3, <1>6, <3>1, <3>2
    <3> QED  BY <1>5, <3>1, <3>2, <3>3
  <2> QED  BY <2>1, <2>2, <2>3, <2>4
<1>7. IsInjective(u)
  BY <1>3, <1>6 DEF IsInjective
<1>8. Holds(s \o t, E, A \union B)
  BY HoldsBoth DEF Once
<1> QED  BY <1>2, <1>7, <1>8 DEF Once

\* No piece is in two places of these sequences.
Apart(seqs) ==
  /\ \A i \in DOMAIN seqs : IsInjective(seqs[i])
  /\ \A i, j \in DOMAIN seqs : i # j => ToSet(seqs[i]) \cap ToSet(seqs[j]) = {}

\* One behind the other they hold what each of them holds.
LEMMA FlattenedHolds ==
  ASSUME NEW E, NEW seqs \in Seq(Seq(E))
  PROVE  /\ Holds(FlattenSeq(seqs), E, UNION {ToSet(seqs[i]) : i \in DOMAIN seqs})
         /\ Apart(seqs) => IsInjective(FlattenSeq(seqs))
<1>1. PICK L \in Nat : L = Len(seqs) /\ DOMAIN seqs = 1..L /\ \A i \in 1..L : seqs[i] \in Seq(E)
  OBVIOUS
<1>2. CASE seqs = <<>>
  <2>1. FlattenSeq(seqs) = <<>> /\ DOMAIN seqs = {}
    BY <1>1, <1>2 DEF FlattenSeq
  <2>2. <<>> \in Seq(E) /\ ToSet(<<>>) = {} /\ IsInjective(<<>>)
    BY DEF ToSet, IsInjective
  <2> QED  BY <2>1, <2>2 DEF Holds
<1>3. CASE seqs # <<>>
  <2>1. PICK flat \in [1..L -> Seq(E)] : Flattens(flat, seqs) /\ FlattenSeq(seqs) = flat[L]
    BY <1>1, <1>3, FlattenSeqByParts
  <2>2. flat[1] = seqs[1] /\ \A n \in 2..L : flat[n] = flat[n - 1] \o seqs[n]
    BY <1>1, <2>1 DEF Flattens
  <2> DEFINE U(n) == UNION {ToSet(seqs[i]) : i \in 1..n}
             S == {n \in Nat : n \in 1..L => /\ Holds(flat[n], E, U(n))
                                             /\ Apart(seqs) => IsInjective(flat[n])}
  <2>3. 0 \in S
    OBVIOUS
  <2>4. ASSUME NEW n \in Nat, n \in S
        PROVE  n + 1 \in S
    <3>1. SUFFICES ASSUME n + 1 \in 1..L
                   PROVE  /\ Holds(flat[n + 1], E, U(n + 1))
                          /\ Apart(seqs) => IsInjective(flat[n + 1])
      OBVIOUS
    <3>2. Holds(seqs[n + 1], E, ToSet(seqs[n + 1]))
      BY <1>1, <3>1 DEF Holds
    <3>3. Apart(seqs) => IsInjective(seqs[n + 1])
      BY <1>1, <3>1 DEF Apart
    <3>4. CASE n = 0
      <4>1. U(n + 1) = ToSet(seqs[n + 1])
        <5>1. 1..(n + 1) = {n + 1}
          BY <3>4
        <5> QED  BY <5>1
      <4>2. flat[n + 1] = seqs[n + 1]
        BY <2>2, <3>4
      <4> QED  BY <3>2, <3>3, <4>1, <4>2
    <3>5. CASE n # 0
      <4>1. n \in 1..L /\ n + 1 \in 2..L /\ (n + 1) - 1 = n
        BY <3>1, <3>5
      <4>2. Holds(flat[n], E, U(n)) /\ (Apart(seqs) => IsInjective(flat[n]))
        BY <2>4, <4>1
      <4>3. flat[n + 1] = flat[n] \o seqs[n + 1]
        BY <2>2, <4>1
      <4>4. U(n + 1) = U(n) \union ToSet(seqs[n + 1])
        <5>1. 1..(n + 1) = (1..n) \union {n + 1}
          OBVIOUS
        <5> QED  BY <5>1
      <4>5. Apart(seqs) => U(n) \cap ToSet(seqs[n + 1]) = {}
        <5>1. \A i \in 1..n : i \in 1..L /\ i # n + 1
          BY <3>1
        <5> QED  BY <1>1, <3>1, <5>1 DEF Apart
      <4> HIDE DEF U
      <4>6. Holds(flat[n + 1], E, U(n + 1))
        <5>1. Holds(flat[n] \o seqs[n + 1], E, U(n) \union ToSet(seqs[n + 1]))
          BY <3>2, <4>2, HoldsBoth
        <5> QED  BY <4>3, <4>4, <5>1
      <4>7. ASSUME Apart(seqs)
            PROVE  IsInjective(flat[n + 1])
        <5>1. Once(flat[n], E, U(n)) /\ Once(seqs[n + 1], E, ToSet(seqs[n + 1]))
          BY <3>2, <3>3, <4>2, <4>7 DEF Once
        <5>2. Once(flat[n + 1], E, U(n) \union ToSet(seqs[n + 1]))
          <6>1. U(n) \cap ToSet(seqs[n + 1]) = {}
            BY <4>5, <4>7
          <6>2. Once(flat[n] \o seqs[n + 1], E, U(n) \union ToSet(seqs[n + 1]))
            BY <5>1, <6>1, OnceBoth
          <6> QED  BY <4>3, <6>2
        <5> QED  BY <5>2 DEF Once
      <4> QED  BY <4>6, <4>7
    <3> QED  BY <3>4, <3>5
  <2> HIDE DEF S
  <2>5. Nat \subseteq S
    BY <2>3, <2>4, SetInduction
  <2>6. L \in 1..L
    BY <1>1, <1>3
  <2>7. Holds(flat[L], E, U(L)) /\ (Apart(seqs) => IsInjective(flat[L]))
    BY <2>5, <2>6 DEF S
  <2> QED  BY <1>1, <2>1, <2>7
<1> QED  BY <1>2, <1>3
-----------------------------------------------------------------------------
(* Sorting the pieces. *)

\* PendingAction sequence of pieces that were read, none of them twice.
Own(s) == s \in Seq(1..Len(response)) /\ IsInjective(s)

PendingHeld == ToSet(current_reasoning) \union ToSet(current_action) \union ToSet(outside_content)
BlocksHeld  == UNION {ToSet(content_blocks[i].content) : i \in DOMAIN content_blocks}

PendingApart ==
  /\ Own(current_reasoning) /\ Own(current_action) /\ Own(outside_content)
  /\ ToSet(current_reasoning) \cap ToSet(current_action) = {}
  /\ ToSet(current_reasoning) \cap ToSet(outside_content) = {}
  /\ ToSet(current_action) \cap ToSet(outside_content) = {}

BlocksApart ==
  /\ \E B : content_blocks \in Seq(B)
  /\ \A i \in DOMAIN content_blocks :
        Own(content_blocks[i].content) /\ ToSet(content_blocks[i].content) \cap PendingHeld = {}
  /\ \A i, j \in DOMAIN content_blocks :
        i # j => ToSet(content_blocks[i].content) \cap ToSet(content_blocks[j].content) = {}

\* PendingAction known tag was opened and none closed since.
Within ==
  \E o \in 1..Len(response) : /\ response[o] \in Opens
                              /\ \A c \in o..Len(response) : response[c] \notin Tags \ Opens

SortedInv ==
  /\ response \in Seq(Token)
  /\ PendingApart
  /\ BlocksApart
  /\ Kept \subseteq BlocksHeld \union PendingHeld
  /\ closed => PendingHeld = {}
  /\ reasoning_depth \in Nat /\ action_depth \in Nat
  /\ Within => reasoning_depth > 0 \/ action_depth > 0

\* The places of what is pending.
PendingReasoning == IF current_reasoning = <<>> THEN 0 ELSE 1
PendingAction == IF current_action = <<>> THEN 0 ELSE 1

PendingPlaces ==
  /\ PendingReasoning \in {0, 1} /\ (PendingReasoning = 1 <=> current_reasoning # <<>>)
  /\ PendingAction \in {0, 1} /\ (PendingAction = 1 <=> current_action # <<>>)
  /\ DOMAIN Pending = 1..(PendingReasoning + PendingAction + Len(outside_content))
  /\ Len(Pending) = PendingReasoning + PendingAction + Len(outside_content)
  /\ \E B : Pending \in Seq(B)
  /\ PendingReasoning = 1 => Pending[1] = <<"reasoning", current_reasoning>>
  /\ PendingAction = 1 => Pending[PendingReasoning + 1] = <<"action", current_action>>
  /\ \A x \in 1..Len(outside_content) :
        Pending[PendingReasoning + PendingAction + x] = <<"none", <<outside_content[x]>> >>

LEMMA PendingParts ==
  ASSUME NEW E, outside_content \in Seq(E)
  PROVE  PendingPlaces
<1> DEFINE r == IF current_reasoning = <<>> THEN <<>> ELSE << <<"reasoning", current_reasoning>> >>
           a == IF current_action = <<>> THEN <<>> ELSE << <<"action", current_action>> >>
           o == [i \in DOMAIN outside_content |-> <<"none", <<outside_content[i]>> >>]
<1>1. PICK n \in Nat : n = Len(outside_content) /\ DOMAIN outside_content = 1..n
  OBVIOUS
<1>2. PICK B : /\ <<"reasoning", current_reasoning>> \in B /\ <<"action", current_action>> \in B
               /\ \A i \in 1..n : <<"none", <<outside_content[i]>> >> \in B
  <2> DEFINE all == {<<"reasoning", current_reasoning>>, <<"action", current_action>>}
                      \union {<<"none", <<outside_content[i]>> >> : i \in 1..n}
  <2>1. /\ <<"reasoning", current_reasoning>> \in all /\ <<"action", current_action>> \in all
        /\ \A i \in 1..n : <<"none", <<outside_content[i]>> >> \in all
    OBVIOUS
  <2> QED  BY <2>1
<1>3. /\ o \in Seq(B) /\ Len(o) = n
      /\ \A i \in 1..n : o[i] = <<"none", <<outside_content[i]>> >>
  BY <1>1, <1>2
<1>4. PendingReasoning \in {0, 1} /\ r \in Seq(B) /\ Len(r) = PendingReasoning
      /\ (PendingReasoning = 1 => r[1] = <<"reasoning", current_reasoning>>)
  BY <1>2 DEF PendingReasoning
<1>5. PendingAction \in {0, 1} /\ a \in Seq(B) /\ Len(a) = PendingAction
      /\ (PendingAction = 1 => a[1] = <<"action", current_action>>)
  BY <1>2 DEF PendingAction
<1>6. Pending = r \o a \o o
  BY DEF Pending
<1> HIDE DEF r, a, o
<1>7. PICK i \in Nat, j \in Nat : i = PendingReasoning /\ j = PendingAction
  BY <1>4, <1>5
<1> DEFINE s == r \o a
<1>8. /\ s \in Seq(B) /\ Len(s) = i + j
      /\ \A x \in 1..i : s[x] = r[x]
      /\ \A x \in 1..j : s[i + x] = a[x]
  BY <1>4, <1>5, <1>7
<1> HIDE DEF s
<1>9. /\ s \o o \in Seq(B) /\ Len(s \o o) = i + j + n
      /\ \A x \in 1..(i + j) : (s \o o)[x] = s[x]
      /\ \A x \in 1..n : (s \o o)[i + j + x] = o[x]
  <2>1. PICK k \in Nat : k = i + j
    OBVIOUS
  <2>2. /\ s \o o \in Seq(B) /\ Len(s \o o) = k + n
        /\ \A x \in 1..k : (s \o o)[x] = s[x]
        /\ \A x \in 1..n : (s \o o)[k + x] = o[x]
    <3>1. s \in Seq(B) /\ Len(s) = k /\ o \in Seq(B) /\ Len(o) = n
      BY <1>3, <1>8, <2>1
    <3> QED  BY <3>1
  <2> QED  BY <2>1, <2>2
<1>10. Pending = s \o o
  BY <1>6 DEF s
<1>11. i = 1 => Pending[1] = <<"reasoning", current_reasoning>>
  BY <1>4, <1>7, <1>8, <1>9, <1>10
<1>12. j = 1 => Pending[i + 1] = <<"action", current_action>>
  BY <1>5, <1>7, <1>8, <1>9, <1>10
<1>13. DOMAIN Pending = 1..(i + j + n) /\ Len(Pending) = i + j + n /\ Pending \in Seq(B)
  BY <1>9, <1>10
<1>14. /\ PendingReasoning = 1 <=> current_reasoning # <<>>
       /\ PendingAction = 1 <=> current_action # <<>>
  BY DEF PendingReasoning, PendingAction
<1> QED  BY <1>1, <1>3, <1>4, <1>5, <1>7, <1>9, <1>10, <1>11, <1>12, <1>13, <1>14 DEF PendingPlaces

\* What is stored is what was pending, each part apart from the others.
LEMMA PendingSplit ==
  ASSUME PendingApart
  PROVE  /\ DOMAIN Pending = 1..Len(Pending) /\ Len(Pending) \in Nat
         /\ \A p \in 1..Len(Pending) : Own(Pending[p][2]) /\ ToSet(Pending[p][2]) \subseteq PendingHeld
         /\ \A p, q \in 1..Len(Pending) :
               p # q => ToSet(Pending[p][2]) \cap ToSet(Pending[q][2]) = {}
         /\ \A x \in PendingHeld : \E p \in 1..Len(Pending) : x \in ToSet(Pending[p][2])
<1> DEFINE E == 1..Len(response)
<1> HIDE DEF E
<1>1. PICK n \in Nat :
        /\ n = Len(outside_content) /\ outside_content \in Seq(E)
        /\ DOMAIN outside_content = 1..n /\ \A x \in 1..n : outside_content[x] \in E
  <2>1. outside_content \in Seq(E)
    BY DEF PendingApart, Own, E
  <2> QED  BY <2>1
<1>2. PendingPlaces
  BY <1>1, PendingParts
<1>3. PICK r \in {0, 1} : r = PendingReasoning
  BY <1>2 DEF PendingPlaces
<1>13. PICK a \in {0, 1} : a = PendingAction
  BY <1>2 DEF PendingPlaces
<1>14. PICK L \in Nat : L = r + a + n
  OBVIOUS
<1>15. /\ L = Len(Pending) /\ DOMAIN Pending = 1..L
       /\ r = 1 <=> current_reasoning # <<>>
       /\ a = 1 <=> current_action # <<>>
  BY <1>1, <1>2, <1>3, <1>13, <1>14 DEF PendingPlaces
<1>4. /\ r = 1 => Pending[1][2] = current_reasoning
      /\ a = 1 => Pending[r + 1][2] = current_action
      /\ \A x \in 1..n : Pending[r + a + x][2] = <<outside_content[x]>>
  <2>1. /\ r = 1 => Pending[1] = <<"reasoning", current_reasoning>>
        /\ a = 1 => Pending[r + 1] = <<"action", current_action>>
    BY <1>2, <1>3, <1>13 DEF PendingPlaces
  <2>2. ASSUME NEW x \in 1..n
        PROVE  Pending[r + a + x] = <<"none", <<outside_content[x]>> >>
    BY <1>1, <1>2, <1>3, <1>13 DEF PendingPlaces
  <2> QED  BY <2>1, <2>2
<1>5. ASSUME NEW x \in 1..n
      PROVE  ToSet(<<outside_content[x]>>) = {outside_content[x]} /\ Own(<<outside_content[x]>>)
  BY <1>1 DEF ToSet, Own, IsInjective, E
<1>6. ASSUME NEW x \in 1..n
      PROVE  outside_content[x] \in ToSet(outside_content)
  BY <1>1 DEF ToSet
<1>7. ASSUME NEW x \in 1..n, NEW y \in 1..n, x # y
      PROVE  outside_content[x] # outside_content[y]
  BY <1>1, <1>7 DEF PendingApart, Own, IsInjective
<1> DEFINE IsR(p) == r = 1 /\ p = 1
           IsA(p) == a = 1 /\ p = r + 1
           IsO(p, x) == x \in 1..n /\ p = r + a + x
<1>8. ASSUME NEW p \in 1..L
      PROVE  IsR(p) \/ IsA(p) \/ \E x \in 1..n : IsO(p, x)
  <2>1. CASE p > r + a
    <3>1. p - (r + a) \in 1..n /\ p = r + a + (p - (r + a))
      BY <1>14, <2>1
    <3> QED  BY <3>1
  <2>2. CASE ~(p > r + a)
    BY <2>2
  <2> QED  BY <2>1, <2>2
<1>9. ASSUME NEW p \in 1..L
      PROVE  /\ IsR(p) => ToSet(Pending[p][2]) = ToSet(current_reasoning) /\ Own(Pending[p][2])
             /\ IsA(p) => ToSet(Pending[p][2]) = ToSet(current_action) /\ Own(Pending[p][2])
             /\ \A x \in 1..n : IsO(p, x) =>
                   ToSet(Pending[p][2]) = {outside_content[x]} /\ Own(Pending[p][2])
  BY <1>4, <1>5 DEF PendingApart
<1>10. ASSUME NEW p \in 1..L
       PROVE  Own(Pending[p][2]) /\ ToSet(Pending[p][2]) \subseteq PendingHeld
  <2>1. CASE IsR(p) \/ IsA(p)
    BY <1>9, <2>1 DEF PendingHeld
  <2>2. ASSUME NEW x \in 1..n, IsO(p, x)
        PROVE  Own(Pending[p][2]) /\ ToSet(Pending[p][2]) \subseteq PendingHeld
    BY <1>6, <1>9, <2>2 DEF PendingHeld
  <2> QED  BY <1>8, <2>1, <2>2
<1>11. ASSUME NEW p \in 1..L, NEW q \in 1..L, p # q
       PROVE  ToSet(Pending[p][2]) \cap ToSet(Pending[q][2]) = {}
  <2>1. /\ ~(IsR(p) /\ IsR(q)) /\ ~(IsA(p) /\ IsA(q))
        /\ \A x \in 1..n, y \in 1..n : IsO(p, x) /\ IsO(q, y) => x # y
    BY <1>11
  <2>2. CASE IsR(p)
    BY <1>6, <1>8, <1>9, <2>1, <2>2 DEF PendingApart
  <2>3. CASE IsA(p)
    BY <1>6, <1>8, <1>9, <2>1, <2>3 DEF PendingApart
  <2>4. ASSUME NEW x \in 1..n, IsO(p, x)
        PROVE  ToSet(Pending[p][2]) \cap ToSet(Pending[q][2]) = {}
    <3>1. ToSet(Pending[p][2]) = {outside_content[x]}
      BY <1>9, <2>4
    <3>2. CASE IsR(q) \/ IsA(q)
      BY <1>6, <1>9, <3>1, <3>2 DEF PendingApart
    <3>3. ASSUME NEW y \in 1..n, IsO(q, y)
          PROVE  ToSet(Pending[p][2]) \cap ToSet(Pending[q][2]) = {}
      <4>1. ToSet(Pending[q][2]) = {outside_content[y]} /\ x # y
        BY <1>9, <2>1, <2>4, <3>3
      <4> QED  BY <1>7, <3>1, <4>1
    <3> QED  BY <1>8, <3>2, <3>3
  <2> QED  BY <1>8, <2>2, <2>3, <2>4
<1>12. ASSUME NEW x \in PendingHeld
       PROVE  \E p \in 1..L : x \in ToSet(Pending[p][2])
  <2>1. CASE x \in ToSet(current_reasoning)
    <3>1. current_reasoning # <<>>
      BY <2>1 DEF ToSet
    <3>2. IsR(1) /\ 1 \in 1..L
      BY <1>14, <1>15, <3>1
    <3> QED  BY <1>9, <2>1, <3>2
  <2>2. CASE x \in ToSet(current_action)
    <3>1. current_action # <<>>
      BY <2>2 DEF ToSet
    <3>2. IsA(r + 1) /\ r + 1 \in 1..L
      BY <1>14, <1>15, <3>1
    <3> QED  BY <1>9, <2>2, <3>2
  <2>3. CASE x \in ToSet(outside_content)
    <3>1. PICK y \in 1..n : outside_content[y] = x
      BY <1>1, <2>3 DEF ToSet
    <3>2. IsO(r + a + y, y) /\ r + a + y \in 1..L
      BY <1>14
    <3> QED  BY <1>9, <3>1, <3>2
  <2> QED  BY <2>1, <2>2, <2>3 DEF PendingHeld
<1> QED  BY <1>10, <1>11, <1>12, <1>15

LEMMA OwnStays ==
  ASSUME NEW s, Own(s), response \in Seq(Token), response' \in Seq(Token),
         Len(response) <= Len(response')
  PROVE  s \in Seq(1..Len(response')) /\ IsInjective(s)
<1>1. PICK m \in Nat, n \in Nat : m = Len(response) /\ n = Len(response') /\ m <= n
  OBVIOUS
<1>2. s \in Seq(1..m) /\ IsInjective(s)
  BY <1>1 DEF Own
<1>3. 1..m \subseteq 1..n
  BY <1>1
<1>4. s \in Seq(1..n)
  <2>1. \A S : \A T : S \subseteq T => \A x \in Seq(S) : x \in Seq(T)
    OBVIOUS
  <2> QED  BY <1>2, <1>3, <2>1
<1> QED  BY <1>1, <1>2, <1>4

\* Storing moves what was pending into blocks.
LEMMA StoreSorts ==
  ASSUME SortedInv, StoreContent, response' \in Seq(Token), Len(response) <= Len(response')
  PROVE  /\ PendingApart' /\ BlocksApart'
         /\ PendingHeld' = {} /\ BlocksHeld' = BlocksHeld \union PendingHeld
<1>1. PICK n \in Nat, L \in Nat :
        /\ n = Len(content_blocks) /\ DOMAIN content_blocks = 1..n
        /\ L = Len(Pending) /\ DOMAIN Pending = 1..L
  <2>1. PICK n \in Nat : n = Len(content_blocks) /\ DOMAIN content_blocks = 1..n
    BY DEF SortedInv, BlocksApart
  <2>2. PendingApart
    BY DEF SortedInv
  <2>3. PICK L \in Nat : L = Len(Pending) /\ DOMAIN Pending = 1..L
    BY <2>2, PendingSplit
  <2> QED  BY <2>1, <2>3
<1>2. /\ \A p \in 1..L : Own(Pending[p][2]) /\ ToSet(Pending[p][2]) \subseteq PendingHeld
      /\ \A p, q \in 1..L : p # q => ToSet(Pending[p][2]) \cap ToSet(Pending[q][2]) = {}
      /\ \A x \in PendingHeld : \E p \in 1..L : x \in ToSet(Pending[p][2])
  <2>1. PendingApart
    BY DEF SortedInv
  <2> QED  BY <1>1, <2>1, PendingSplit
<1>3. /\ response \in Seq(Token)
      /\ \A i \in 1..n : /\ Own(content_blocks[i].content)
                         /\ ToSet(content_blocks[i].content) \cap PendingHeld = {}
      /\ \A i, j \in 1..n :
            i # j => ToSet(content_blocks[i].content) \cap ToSet(content_blocks[j].content) = {}
  BY <1>1 DEF SortedInv, BlocksApart
<1> DEFINE new == [i \in DOMAIN Pending |-> [tag |-> Pending[i][1], content |-> Pending[i][2],
                                             position |-> event_counter + i]]
           Held(i) == IF i \in 1..n THEN content_blocks[i].content ELSE Pending[i - n][2]
<1>4. PICK B : content_blocks \in Seq(B) /\ new \in Seq(B) /\ Len(new) = L
  <2>1. PICK C : content_blocks \in Seq(C)
    BY DEF SortedInv, BlocksApart
  <2>2. \A i \in 1..L : new[i] \in {new[p] : p \in 1..L}
    OBVIOUS
  <2>3. new = [i \in 1..L |-> new[i]]
    BY <1>1
  <2> HIDE DEF new
  <2> DEFINE D == C \union {new[p] : p \in 1..L}
  <2>4. new \in Seq(D) /\ Len(new) = L
    <3>1. \A i \in 1..L : new[i] \in D
      BY <2>2
    <3> HIDE DEF D
    <3>2. new \in [1..L -> D]
      BY <2>3, <3>1
    <3> QED  BY <3>2
  <2>5. content_blocks \in Seq(D)
    <3>1. C \subseteq D
      OBVIOUS
    <3> HIDE DEF D
    <3> QED  BY <2>1, <3>1
  <2> QED  BY <2>4, <2>5
<1>5. \A p \in 1..L : new[p].content = Pending[p][2]
  BY <1>1
<1>6. content_blocks' = content_blocks \o new
  BY DEF StoreContent
<1> HIDE DEF new
<1>7. /\ content_blocks' \in Seq(B) /\ Len(content_blocks') = n + L
      /\ DOMAIN content_blocks' = 1..(n + L)
      /\ \A i \in 1..n : content_blocks'[i] = content_blocks[i]
      /\ \A p \in 1..L : content_blocks'[n + p] = new[p]
  <2>1. PICK s, t : s = content_blocks /\ t = new
    OBVIOUS
  <2>2. s \in Seq(B) /\ t \in Seq(B) /\ Len(s) = n /\ Len(t) = L
    BY <1>1, <1>4, <2>1
  <2>3. content_blocks' = s \o t
    BY <1>6, <2>1
  <2>4. /\ s \o t \in Seq(B) /\ Len(s \o t) = n + L
        /\ \A i \in 1..n : (s \o t)[i] = s[i]
        /\ \A p \in 1..L : (s \o t)[n + p] = t[p]
    BY <2>2
  <2>5. DOMAIN (s \o t) = 1..(n + L)
    BY <2>4
  <2> QED  BY <2>1, <2>3, <2>4, <2>5
<1>8. ASSUME NEW i \in 1..(n + L)
      PROVE  /\ i \in 1..n \/ i - n \in 1..L
             /\ content_blocks'[i].content = Held(i)
  <2>1. CASE i \in 1..n
    BY <1>7, <2>1
  <2>2. CASE i \notin 1..n
    <3>1. PICK p \in 1..L : p = i - n /\ i = n + p
      <4>1. i - n \in 1..L /\ i = n + (i - n)
        BY <2>2
      <4> QED  BY <4>1
    <3>2. content_blocks'[i] = new[p]
      BY <1>7, <3>1
    <3>3. Held(i) = Pending[p][2]
      BY <2>2, <3>1
    <3> QED  BY <1>5, <3>1, <3>2, <3>3
  <2> QED  BY <2>1, <2>2
<1>9. ASSUME NEW i \in 1..(n + L)
      PROVE  Own(Held(i))
  BY <1>2, <1>3, <1>8
<1>10. ASSUME NEW i \in 1..(n + L), NEW j \in 1..(n + L), i # j
       PROVE  ToSet(Held(i)) \cap ToSet(Held(j)) = {}
  <2>1. CASE i \in 1..n /\ j \in 1..n
    BY <1>3, <1>10, <2>1
  <2>2. CASE i \in 1..n /\ j \notin 1..n
    BY <1>2, <1>3, <1>8, <2>2
  <2>3. CASE i \notin 1..n /\ j \in 1..n
    BY <1>2, <1>3, <1>8, <2>3
  <2>4. CASE i \notin 1..n /\ j \notin 1..n
    <3>1. i - n \in 1..L /\ j - n \in 1..L /\ i - n # j - n
      BY <1>8, <1>10, <2>4
    <3> QED  BY <1>2, <2>4, <3>1
  <2> QED  BY <2>1, <2>2, <2>3, <2>4
<1>11. UNION {ToSet(Held(i)) : i \in 1..(n + L)} = BlocksHeld \union PendingHeld
  <2>1. BlocksHeld = UNION {ToSet(Held(i)) : i \in 1..n}
    BY <1>1 DEF BlocksHeld
  <2>2. \A i \in 1..n : i \in 1..(n + L)
    OBVIOUS
  <2>3. \A p \in 1..L : n + p \in 1..(n + L) /\ Held(n + p) = Pending[p][2]
    <3>1. \A p \in 1..L : n + p \in 1..(n + L) /\ (n + p) - n = p /\ n + p \notin 1..n
      OBVIOUS
    <3> QED  BY <3>1
  <2>4. ASSUME NEW i \in 1..(n + L)
        PROVE  ToSet(Held(i)) \subseteq BlocksHeld \union PendingHeld
    <3>1. CASE i \in 1..n
      BY <2>1, <3>1
    <3>2. CASE i \notin 1..n
      BY <1>2, <1>8, <3>2
    <3> QED  BY <3>1, <3>2
  <2>5. ASSUME NEW x \in PendingHeld
        PROVE  \E i \in 1..(n + L) : x \in ToSet(Held(i))
    BY <1>2, <2>3
  <2> HIDE DEF Held
  <2>6. ASSUME NEW x \in BlocksHeld
        PROVE  \E i \in 1..(n + L) : x \in ToSet(Held(i))
    BY <2>1, <2>2
  <2> QED  BY <2>4, <2>5, <2>6
<1> HIDE DEF Held
<1>12. PendingHeld' = {} /\ PendingApart'
  <2>1. <<>> \in Seq(1..Len(response')) /\ IsInjective(<<>>) /\ ToSet(<<>>) = {}
    BY DEF IsInjective, ToSet
  <2>2. current_reasoning' = <<>> /\ current_action' = <<>> /\ outside_content' = <<>>
    BY DEF StoreContent
  <2> QED  BY <2>1, <2>2 DEF PendingHeld, PendingApart, Own
<1>13. BlocksApart'
  <2>1. ASSUME NEW i \in DOMAIN content_blocks'
        PROVE  Own(content_blocks[i].content)'
    <3>1. Own(Held(i)) /\ content_blocks'[i].content = Held(i)
      BY <1>7, <1>8, <1>9
    <3> QED  BY <1>3, <3>1, OwnStays DEF Own
  <2>2. ASSUME NEW i \in DOMAIN content_blocks', NEW j \in DOMAIN content_blocks', i # j
        PROVE  ToSet(content_blocks'[i].content) \cap ToSet(content_blocks'[j].content) = {}
    BY <1>7, <1>8, <1>10, <2>2
  <2> QED  BY <1>7, <1>12, <2>1, <2>2 DEF BlocksApart
<1>14. BlocksHeld' = BlocksHeld \union PendingHeld
  <2>1. BlocksHeld' = UNION {ToSet(content_blocks'[i].content) : i \in 1..(n + L)}
    BY <1>7 DEF BlocksHeld
  <2>2. {ToSet(content_blocks'[i].content) : i \in 1..(n + L)} = {ToSet(Held(i)) : i \in 1..(n + L)}
    BY <1>8
  <2> QED  BY <1>11, <2>1, <2>2
<1> QED  BY <1>12, <1>13, <1>14

\* A piece that is read now is in nothing that was read before.
LEMMA PieceIsNew ==
  ASSUME NEW s, Own(s), response \in Seq(Token)
  PROVE  /\ Piece \notin ToSet(s)
         /\ Append(s, Piece) \in Seq(1..Piece) /\ IsInjective(Append(s, Piece))
         /\ ToSet(Append(s, Piece)) = ToSet(s) \union {Piece}
<1>1. PICK n \in Nat : n = Len(response) /\ Piece = n + 1
  BY DEF Piece
<1>2. s \in Seq(1..n) /\ IsInjective(s)
  BY <1>1 DEF Own
<1>3. PICK m \in Nat : m = Len(s) /\ DOMAIN s = 1..m /\ \A i \in 1..m : s[i] \in 1..n
  BY <1>2
<1>4. n + 1 \notin ToSet(s)
  BY <1>3 DEF ToSet
<1>5. s \in Seq(1..(n + 1))
  <2>1. 1..n \subseteq 1..(n + 1)
    OBVIOUS
  <2> QED  BY <1>2, <2>1
<1>6. <<n + 1>> \in Seq(1..(n + 1)) /\ IsInjective(<<n + 1>>) /\ ToSet(<<n + 1>>) = {n + 1}
  BY DEF IsInjective, ToSet
<1>7. Append(s, n + 1) = s \o <<n + 1>>
  BY <1>5
<1> DEFINE E == 1..(n + 1)
<1>8. Once(s, E, ToSet(s)) /\ Once(<<n + 1>>, E, {n + 1})
  BY <1>2, <1>5, <1>6 DEF Once, Holds
<1>9. ToSet(s) \cap {n + 1} = {}
  BY <1>4
<1> HIDE DEF E
<1>10. Once(s \o <<n + 1>>, E, ToSet(s) \union {n + 1})
  BY <1>8, <1>9, OnceBoth
<1> QED  BY <1>1, <1>4, <1>7, <1>10 DEF Once, Holds, E

\* What is to be kept of one more token.
LEMMA KeptGrows ==
  ASSUME response \in Seq(Token), NEW t \in Token, ReadToken(t)
  PROVE  /\ response' \in Seq(Token) /\ Len(response') = Piece /\ Len(response) <= Len(response')
         /\ Kept' \subseteq Kept \union {Piece}
         /\ Piece \in Kept' => t \in Data \/ (t = "<b>" /\ Within)
         /\ Within' => t \in Opens \/ (Within /\ t \notin Tags)
<1>1. PICK n \in Nat : n = Len(response) /\ Piece = n + 1 /\ DOMAIN response = 1..n
  BY DEF Piece
<1>2. /\ response' \in Seq(Token) /\ Len(response') = n + 1 /\ DOMAIN response' = 1..(n + 1)
      /\ response'[n + 1] = t /\ \A i \in 1..n : response'[i] = response[i]
  BY <1>1 DEF ReadToken
<1> DEFINE Opened(r, i) ==
             \E o \in 1..i : r[o] \in Opens /\ \A c \in o..i : r[c] \notin Tags \ Opens
<1>3. ASSUME NEW i \in 1..n
      PROVE  Opened(response', i) => Opened(response, i)
  <2>1. SUFFICES ASSUME NEW o \in 1..i, response'[o] \in Opens,
                        \A c \in o..i : response'[c] \notin Tags \ Opens
                 PROVE  Opened(response, i)
    OBVIOUS
  <2>2. \A c \in o..i : c \in 1..n
    OBVIOUS
  <2>3. o \in 1..n
    OBVIOUS
  <2> QED  BY <1>2, <2>1, <2>2, <2>3
<1>4. Within <=> Opened(response, n)
  BY <1>1 DEF Within
<1>5. Within' <=> Opened(response', n + 1)
  BY <1>2 DEF Within
<1>6. Opened(response', n + 1) => t \notin Tags \ Opens /\ (t \in Opens \/ Opened(response, n))
  <2>1. SUFFICES ASSUME NEW o \in 1..(n + 1), response'[o] \in Opens,
                        \A c \in o..(n + 1) : response'[c] \notin Tags \ Opens
                 PROVE  t \notin Tags \ Opens /\ (t \in Opens \/ Opened(response, n))
    OBVIOUS
  <2>2. t \notin Tags \ Opens
    <3>1. n + 1 \in o..(n + 1)
      OBVIOUS
    <3> QED  BY <1>2, <2>1, <3>1
  <2>3. CASE o = n + 1
    BY <1>2, <2>1, <2>2, <2>3
  <2>4. CASE o # n + 1
    <3>1. o \in 1..n /\ n \in Nat /\ \A c \in o..n : c \in o..(n + 1) /\ c \in 1..n
      BY <2>4
    <3>2. response[o] \in Opens /\ \A c \in o..n : response[c] \notin Tags \ Opens
      BY <1>2, <2>1, <3>1
    <3> QED  BY <2>2, <3>1, <3>2
  <2> QED  BY <2>3, <2>4
<1>7. /\ Kept = {i \in 1..n : response[i] \in Data \/ (response[i] = "<b>" /\ Opened(response, i))}
      /\ Kept' = {i \in 1..(n + 1) :
                    response'[i] \in Data \/ (response'[i] = "<b>" /\ Opened(response', i))}
  BY <1>1, <1>2 DEF Kept
<1> HIDE DEF Opened
<1>8. ASSUME NEW i \in Kept', i # n + 1
      PROVE  i \in Kept
  <2>1. i \in 1..n
    BY <1>7, <1>8
  <2> QED  BY <1>2, <1>3, <1>7, <2>1
<1>9. "<b>" \notin Opens /\ Opens \subseteq Tags
  BY DEF Opens, Tags
<1>10. n + 1 \in Kept' => t \in Data \/ (t = "<b>" /\ Within)
  BY <1>2, <1>4, <1>6, <1>7, <1>9
<1>11. Within' => t \in Opens \/ (Within /\ t \notin Tags)
  BY <1>4, <1>5, <1>6
<1> QED  BY <1>1, <1>2, <1>8, <1>10, <1>11

\* A piece that is put somewhere is pending, once; a piece of markup outside is dropped.
LEMMA PutSorts ==
  ASSUME SortedInv, NEW t \in Token, ReadToken(t),
         NEW where \in {"reasoning", "action", "none", "nowhere"}, Put(where)
  PROVE  /\ PendingApart' /\ BlocksApart' /\ BlocksHeld' = BlocksHeld
         /\ PendingHeld' = IF where = "nowhere" THEN PendingHeld
                                                ELSE PendingHeld \union {Piece}
<1>1. /\ response \in Seq(Token) /\ PendingApart /\ BlocksApart
      /\ Own(current_reasoning) /\ Own(current_action) /\ Own(outside_content)
  BY DEF SortedInv, PendingApart
<1>2. response' \in Seq(Token) /\ Len(response') = Piece /\ Len(response) <= Len(response')
  BY <1>1, KeptGrows
<1> DEFINE Kept1(s) == s \in Seq(1..Len(response')) /\ IsInjective(s)
<1>3. ASSUME NEW s, Own(s)
      PROVE  /\ Kept1(s) /\ Kept1(Append(s, Piece)) /\ Piece \notin ToSet(s)
             /\ ToSet(Append(s, Piece)) = ToSet(s) \union {Piece}
  BY <1>1, <1>2, <1>3, OwnStays, PieceIsNew
<1>4. /\ current_reasoning' = IF where = "reasoning" THEN Append(current_reasoning, Piece)
                                                     ELSE current_reasoning
      /\ current_action' = IF where = "action" THEN Append(current_action, Piece)
                                               ELSE current_action
      /\ outside_content' = IF where = "none" THEN Append(outside_content, Piece)
                                              ELSE outside_content
      /\ content_blocks' = content_blocks
  BY DEF Put
<1> HIDE DEF Kept1
<1>5. /\ Kept1(current_reasoning') /\ Kept1(current_action') /\ Kept1(outside_content')
      /\ ToSet(current_reasoning') = ToSet(current_reasoning)
                                       \union (IF where = "reasoning" THEN {Piece} ELSE {})
      /\ ToSet(current_action') = ToSet(current_action)
                                    \union (IF where = "action" THEN {Piece} ELSE {})
      /\ ToSet(outside_content') = ToSet(outside_content)
                                     \union (IF where = "none" THEN {Piece} ELSE {})
      /\ Piece \notin PendingHeld
  BY <1>1, <1>3, <1>4 DEF PendingHeld
<1>6. PendingHeld' = PendingHeld \union (IF where = "nowhere" THEN {} ELSE {Piece})
  BY <1>5 DEF PendingHeld
<1>7. PendingApart'
  <2>1. Own(current_reasoning)' /\ Own(current_action)' /\ Own(outside_content)'
    BY <1>5 DEF Own, Kept1
  <2> QED  BY <1>1, <1>5, <2>1 DEF PendingApart, PendingHeld
<1>8. BlocksApart'
  <2>1. ASSUME NEW i \in DOMAIN content_blocks
        PROVE  Own(content_blocks[i].content)' /\ Piece \notin ToSet(content_blocks[i].content)
    <3>1. Own(content_blocks[i].content)
      BY <1>1 DEF BlocksApart
    <3>2. PICK s : s = content_blocks[i].content
      OBVIOUS
    <3>3. Kept1(s) /\ Piece \notin ToSet(s)
      BY <1>3, <3>1, <3>2
    <3>4. content_blocks'[i].content = s
      BY <1>4, <3>2
    <3> QED  BY <3>2, <3>3, <3>4 DEF Own, Kept1
  <2> QED  BY <1>1, <1>4, <1>6, <2>1 DEF BlocksApart
<1>9. BlocksHeld' = BlocksHeld
  BY <1>4 DEF BlocksHeld
<1> QED  BY <1>6, <1>7, <1>8, <1>9

LEMMA SortedInit ==
  ParserInit => SortedInv
<1> SUFFICES ASSUME ParserInit
             PROVE  SortedInv
  OBVIOUS
<1>1. <<>> \in Seq(1..Len(response)) /\ IsInjective(<<>>) /\ ToSet(<<>>) = {}
  BY DEF IsInjective, ToSet
<1>2. PendingHeld = {} /\ PendingApart
  BY <1>1 DEF ParserInit, PendingHeld, PendingApart, Own
<1>3. BlocksApart
  <2>1. content_blocks \in Seq({}) /\ DOMAIN content_blocks = {}
    BY DEF ParserInit
  <2> QED  BY <2>1 DEF BlocksApart
<1>4. response \in Seq(Token) /\ DOMAIN response = {} /\ 1..Len(response) = {}
  BY DEF ParserInit
<1>5. Kept = {} /\ ~Within
  BY <1>4 DEF Kept, Within
<1> QED  BY <1>2, <1>3, <1>4, <1>5 DEF SortedInv, ParserInit

LEMMA SortedStep ==
  SortedInv /\ [ParserNext]_parserVars => SortedInv'
<1> SUFFICES ASSUME SortedInv, [ParserNext]_parserVars
             PROVE  SortedInv'
  OBVIOUS
<1>1. ASSUME Close
      PROVE  SortedInv'
  <2>1. response' = response /\ StoreContent /\ reasoning_depth' = reasoning_depth
        /\ action_depth' = action_depth
    BY <1>1 DEF Close
  <2>2. response' \in Seq(Token) /\ Len(response) <= Len(response')
    <3>1. response \in Seq(Token)
      BY DEF SortedInv
    <3>2. Len(response) \in Nat
      BY <3>1
    <3> QED  BY <2>1, <3>1, <3>2
  <2>3. PendingApart' /\ BlocksApart' /\ PendingHeld' = {}
        /\ BlocksHeld' = BlocksHeld \union PendingHeld
    BY <2>1, <2>2, StoreSorts
  <2>4. Kept' = Kept /\ (Within' <=> Within)
    BY <2>1 DEF Kept, Within
  <2> QED  BY <2>1, <2>2, <2>3, <2>4 DEF SortedInv
<1>2. ASSUME NEW t \in Tags, HandleTag(t)
      PROVE  SortedInv'
  <2>1. t \in Token /\ t \notin Data /\ t # "<b>" /\ ReadToken(t) /\ StoreContent
        /\ response \in Seq(Token)
    BY <1>2 DEF HandleTag, Token, Data, Tags, SortedInv
  <2>2. /\ response' \in Seq(Token) /\ Len(response) <= Len(response')
        /\ Kept' \subseteq Kept \union {Piece} /\ Piece \notin Kept'
        /\ Within' => t \in Opens
    BY <2>1, KeptGrows
  <2>3. PendingApart' /\ BlocksApart' /\ PendingHeld' = {}
        /\ BlocksHeld' = BlocksHeld \union PendingHeld
    BY <2>1, <2>2, StoreSorts
  <2>4. /\ reasoning_depth' \in Nat /\ action_depth' \in Nat
        /\ t \in Opens => reasoning_depth' > 0 \/ action_depth' > 0
    BY <1>2 DEF HandleTag, SortedInv
  <2> QED  BY <2>2, <2>3, <2>4 DEF SortedInv
<1>3. ASSUME NEW t \in Token \ Tags, ReadToken(t),
             NEW where \in {"reasoning", "action", "none", "nowhere"}, Put(where),
             where = "nowhere" => t = "<b>" /\ Around = "none"
      PROVE  SortedInv'
  <2>1. response \in Seq(Token) /\ reasoning_depth \in Nat /\ action_depth \in Nat
    BY DEF SortedInv
  <2>2. /\ response' \in Seq(Token)
        /\ Kept' \subseteq Kept \union {Piece}
        /\ Piece \in Kept' => t \in Data \/ Within
        /\ Within' => Within
    <3>1. Opens \subseteq Tags
      BY DEF Opens, Tags
    <3> QED  BY <1>3, <2>1, <3>1, KeptGrows
  <2>3. /\ PendingApart' /\ BlocksApart' /\ BlocksHeld' = BlocksHeld
        /\ PendingHeld' = IF where = "nowhere" THEN PendingHeld ELSE PendingHeld \union {Piece}
    BY <1>3, PutSorts
  <2>4. where = "nowhere" => Piece \notin Kept'
    <3>1. SUFFICES ASSUME where = "nowhere"
                   PROVE  ~Within /\ t \notin Data
      BY <2>2
    <3>2. t = "<b>" /\ Around = "none"
      BY <1>3, <3>1
    <3>3. ~(reasoning_depth > 0) /\ ~(action_depth > 0)
      BY <3>2 DEF Around
    <3> QED  BY <3>2, <3>3 DEF SortedInv, Data
  <2>5. reasoning_depth' = reasoning_depth /\ action_depth' = action_depth
    BY <1>3 DEF Put
  <2>6. ~closed /\ closed' = closed
    BY <1>3 DEF ReadToken
  <2>7. /\ Kept \subseteq BlocksHeld \union PendingHeld
        /\ Within => reasoning_depth > 0 \/ action_depth > 0
    BY DEF SortedInv
  <2>8. Kept' \subseteq BlocksHeld' \union PendingHeld'
    BY <2>2, <2>3, <2>4, <2>7
  <2> QED  BY <2>1, <2>2, <2>3, <2>5, <2>6, <2>7, <2>8 DEF SortedInv
<1>4. Around \in {"reasoning", "action", "none"}
  BY DEF Around
<1>5. ASSUME HandleOther
      PROVE  SortedInv'
  <2>1. "<b>" \in Token \ Tags
    BY DEF Token, Tags
  <2>2. PICK where \in {"reasoning", "action", "none", "nowhere"} :
          Put(where) /\ (where = "nowhere" => Around = "none")
    BY <1>4, <1>5 DEF HandleOther
  <2> QED  BY <1>3, <1>5, <2>1, <2>2 DEF HandleOther
<1>6. ASSUME NEW t \in Data, HandleData(t)
      PROVE  SortedInv'
  <2>1. t \in Token \ Tags
    BY DEF Token, Tags, Data
  <2>2. PICK where \in {"reasoning", "action", "none"} : Put(where)
    BY <1>4, <1>6 DEF HandleData
  <2>3. ReadToken(t)
    BY <1>6 DEF HandleData
  <2> QED  BY <1>3, <2>1, <2>2, <2>3
<1>7. CASE UNCHANGED parserVars
  <2>1. /\ response' = response /\ reasoning_depth' = reasoning_depth
        /\ action_depth' = action_depth /\ closed' = closed
        /\ current_reasoning' = current_reasoning /\ current_action' = current_action
        /\ outside_content' = outside_content /\ content_blocks' = content_blocks
    BY <1>7 DEF parserVars
  <2>2. PendingHeld' = PendingHeld /\ BlocksHeld' = BlocksHeld /\ Kept' = Kept
        /\ (Within' <=> Within)
    BY <2>1 DEF PendingHeld, BlocksHeld, Kept, Within
  <2>3. PendingApart'
    BY <2>1 DEF SortedInv, PendingApart, Own
  <2>4. BlocksApart'
    BY <2>1, <2>2 DEF SortedInv, BlocksApart, Own
  <2> QED  BY <2>1, <2>2, <2>3, <2>4 DEF SortedInv
<1> QED  BY <1>1, <1>2, <1>5, <1>6, <1>7 DEF ParserNext

\* Every piece that is to be kept is pending or in a block, and in one place only.
THEOREM Sorted == ParserSpec => []SortedInv
BY SortedInit, SortedStep, PTL DEF ParserSpec

\* What some of the blocks hold.
LEMMA ConcatHolds ==
  ASSUME SortedInv, NEW blocks
  PROVE  /\ IsInjective(Concat(blocks))
         /\ \A x : x \in ToSet(Concat(blocks)) <=>
                   \E i \in DOMAIN content_blocks :
                      content_blocks[i] \in blocks /\ x \in ToSet(content_blocks[i].content)
<1> DEFINE E == 1..Len(response)
           seqs == [i \in DOMAIN content_blocks |->
                      IF content_blocks[i] \in blocks THEN content_blocks[i].content ELSE <<>>]
<1>1. PICK n \in Nat : n = Len(content_blocks) /\ DOMAIN content_blocks = 1..n
  BY DEF SortedInv, BlocksApart
<1>2. ASSUME NEW i \in 1..n
      PROVE  /\ seqs[i] \in Seq(E) /\ IsInjective(seqs[i])
             /\ content_blocks[i] \in blocks => seqs[i] = content_blocks[i].content
             /\ content_blocks[i] \notin blocks => ToSet(seqs[i]) = {}
  <2>1. <<>> \in Seq(E) /\ IsInjective(<<>>) /\ ToSet(<<>>) = {}
    BY DEF IsInjective, ToSet
  <2>2. content_blocks[i].content \in Seq(E) /\ IsInjective(content_blocks[i].content)
    BY <1>1 DEF SortedInv, BlocksApart, Own
  <2>3. CASE content_blocks[i] \in blocks
    BY <1>1, <2>2, <2>3
  <2>4. CASE content_blocks[i] \notin blocks
    <3>1. seqs[i] = <<>>
      BY <1>1, <2>4
    <3> QED  BY <2>1, <2>4, <3>1
  <2> QED  BY <2>3, <2>4
<1>3. DOMAIN seqs = 1..n /\ seqs = [i \in 1..n |-> seqs[i]]
  BY <1>1
<1>4. Concat(blocks) = FlattenSeq(seqs)
  BY DEF Concat
<1> HIDE DEF seqs, E
<1>5. seqs \in Seq(Seq(E))
  <2>1. seqs \in [1..n -> Seq(E)]
    BY <1>2, <1>3
  <2> QED  BY <2>1
<1>6. Apart(seqs)
  <2>1. ASSUME NEW i \in 1..n, NEW j \in 1..n, i # j
        PROVE  ToSet(seqs[i]) \cap ToSet(seqs[j]) = {}
    <3>1. ToSet(content_blocks[i].content) \cap ToSet(content_blocks[j].content) = {}
      BY <1>1, <2>1 DEF SortedInv, BlocksApart
    <3> QED  BY <1>2, <3>1
  <2> QED  BY <1>2, <1>3, <2>1 DEF Apart
<1>7. ASSUME NEW x
      PROVE  x \in UNION {ToSet(seqs[i]) : i \in DOMAIN seqs} <=>
                \E i \in 1..n : content_blocks[i] \in blocks /\ x \in ToSet(content_blocks[i].content)
  BY <1>2, <1>3
<1> QED  BY <1>1, <1>4, <1>5, <1>6, <1>7, FlattenedHolds DEF Holds

LEMMA SaidHolds ==
  ASSUME SortedInv
  PROVE  IsInjective(Said) /\ ToSet(Said) = BlocksHeld
<1>1. \A i \in DOMAIN content_blocks : content_blocks[i] \in ToSet(content_blocks)
  BY DEF ToSet
<1>2. \A x : x \in ToSet(Said) <=> x \in BlocksHeld
  BY <1>1, ConcatHolds DEF Said, BlocksHeld
<1> QED  BY <1>2, ConcatHolds DEF Said

\* NothingLostOrDoubled (the properties' section of ReactParser).
THEOREM NothingLost == ParserSpec => []NothingLostOrDoubled
<1>1. SortedInv => NothingLostOrDoubled
  BY SaidHolds DEF SortedInv, NothingLostOrDoubled
<1> QED  BY <1>1, Sorted, PTL
-----------------------------------------------------------------------------
(* The parser's types. *)

\* Both depths count tags that were read.
TypedInv ==
  ParserTypeOK /\ reasoning_depth <= Len(response) /\ action_depth <= Len(response)

LEMMA StoreTyped ==
  ASSUME ParserTypeOK, StoreContent
  PROVE  /\ content_blocks' \in Seq(Block)
         /\ {current_reasoning', current_action', outside_content'} \subseteq Seq(1..MaxTokens)
         /\ event_counter + Len(Pending) + 1 \in Nat
<1> DEFINE T == {"reasoning", "action", "none"}
           P == T \X Seq(1..MaxTokens)
           r == IF current_reasoning = <<>> THEN <<>> ELSE << <<"reasoning", current_reasoning>> >>
           a == IF current_action = <<>> THEN <<>> ELSE << <<"action", current_action>> >>
           o == [i \in DOMAIN outside_content |-> <<"none", <<outside_content[i]>> >>]
<1>1. PICK n \in Nat : /\ n = Len(outside_content) /\ DOMAIN outside_content = 1..n
                       /\ \A i \in 1..n : outside_content[i] \in 1..MaxTokens
  <2>1. PICK D : D = 1..MaxTokens
    OBVIOUS
  <2>2. outside_content \in Seq(D)
    BY <2>1 DEF ParserTypeOK
  <2>3. \A s \in Seq(D) : /\ Len(s) \in Nat /\ DOMAIN s = 1..Len(s)
                          /\ \A i \in 1..Len(s) : s[i] \in D
    OBVIOUS
  <2> QED  BY <2>1, <2>2, <2>3
<1>2. r \in Seq(P) /\ a \in Seq(P)
  <2>1. <<"reasoning", current_reasoning>> \in P /\ <<"action", current_action>> \in P
    BY DEF ParserTypeOK
  <2> HIDE DEF P
  <2> QED  BY <2>1
<1>3. o \in Seq(P)
  <2>1. \A i \in 1..n : <<"none", <<outside_content[i]>> >> \in P
    <3>1. \A i \in 1..n : <<outside_content[i]>> \in Seq(1..MaxTokens)
      BY <1>1
    <3> QED  BY <3>1
  <2> HIDE DEF P
  <2>2. o \in [1..n -> P]
    BY <1>1, <2>1
  <2> QED  BY <2>2
<1>4. Pending = r \o a \o o
  BY DEF Pending
<1> HIDE DEF r, a, o, P
<1>5. Pending \in Seq(P)
  BY <1>2, <1>3, <1>4
<1>6. PICK m \in Nat, L \in Nat : /\ m = event_counter /\ L = Len(Pending)
                                 /\ DOMAIN Pending = 1..L /\ \A i \in 1..L : Pending[i] \in P
  <2>1. event_counter \in Nat
    BY DEF ParserTypeOK, event_counter
  <2>2. \A s \in Seq(P) : /\ Len(s) \in Nat /\ DOMAIN s = 1..Len(s)
                          /\ \A i \in 1..Len(s) : s[i] \in P
    OBVIOUS
  <2> QED  BY <1>5, <2>1, <2>2
<1> DEFINE new == [i \in DOMAIN Pending |-> [tag |-> Pending[i][1], content |-> Pending[i][2],
                                             position |-> event_counter + i]]
<1>7. new \in Seq(Block)
  <2>1. \A i \in 1..L : /\ Pending[i][1] \in T /\ Pending[i][2] \in Seq(1..MaxTokens)
                        /\ event_counter + i \in Nat
    BY <1>6 DEF P
  <2>2. \A i \in 1..L : [tag |-> Pending[i][1], content |-> Pending[i][2],
                         position |-> event_counter + i] \in Block
    BY <2>1 DEF Block
  <2>3. new \in [1..L -> Block]
    BY <1>6, <2>2
  <2> HIDE DEF new
  <2> QED  BY <2>3
<1>8. content_blocks' = content_blocks \o new
  BY DEF StoreContent
<1> HIDE DEF new
<1>9. content_blocks' \in Seq(Block)
  BY <1>7, <1>8 DEF ParserTypeOK
<1>10. <<>> \in Seq(1..MaxTokens)
  OBVIOUS
<1> QED  BY <1>6, <1>9, <1>10 DEF StoreContent

LEMMA ReadTyped ==
  ASSUME TypedInv, NEW t \in Token, ReadToken(t)
  PROVE  /\ response' \in Seq(Token) /\ Len(response') <= MaxTokens
         /\ Len(response') = Piece /\ Piece \in 1..MaxTokens /\ closed' \in BOOLEAN
<1>1. PICK n \in Nat : n = Len(response) /\ n < MaxTokens /\ response \in Seq(Token)
  BY DEF TypedInv, ParserTypeOK, ReadToken
<1>2. response' \in Seq(Token) /\ Len(response') = n + 1
  BY <1>1 DEF ReadToken
<1>3. n + 1 \in 1..MaxTokens
  BY <1>1, TokensConstant
<1> QED  BY <1>1, <1>2, <1>3, TokensConstant DEF Piece, TypedInv, ParserTypeOK, ReadToken

LEMMA TypedStep ==
  TypedInv /\ [ParserNext]_parserVars => TypedInv'
<1> SUFFICES ASSUME TypedInv, [ParserNext]_parserVars
             PROVE  TypedInv'
  OBVIOUS
<1>1. ASSUME Close
      PROVE  TypedInv'
  <2>1. /\ content_blocks' \in Seq(Block)
        /\ {current_reasoning', current_action', outside_content'} \subseteq Seq(1..MaxTokens)
    BY <1>1, StoreTyped DEF Close, TypedInv
  <2> QED  BY <1>1, <2>1 DEF Close, TypedInv, ParserTypeOK
<1>2. ASSUME NEW t \in Tags, HandleTag(t)
      PROVE  TypedInv'
  <2>1. t \in Token /\ ReadToken(t) /\ StoreContent
    BY <1>2 DEF HandleTag, Token
  <2>2. /\ content_blocks' \in Seq(Block)
        /\ {current_reasoning', current_action', outside_content'} \subseteq Seq(1..MaxTokens)
        /\ event_counter + Len(Pending) + 1 \in Nat
    BY <2>1, StoreTyped DEF TypedInv
  <2>3. /\ response' \in Seq(Token) /\ Len(response') <= MaxTokens /\ closed' \in BOOLEAN
        /\ Len(response') = Piece /\ Piece \in 1..MaxTokens
    BY <2>1, ReadTyped
  <2>4. TagOf[t] \in {"reasoning", "action"}
    BY DEF TagOf
  <2>5. tag_events' \in Seq([tag : {"reasoning", "action"}, opened : BOOLEAN, position : Nat])
    <3>1. [tag |-> TagOf[t], opened |-> t \in Opens, position |-> event_counter + Len(Pending) + 1]
            \in [tag : {"reasoning", "action"}, opened : BOOLEAN, position : Nat]
      BY <2>2, <2>4
    <3> QED  BY <1>2, <3>1 DEF HandleTag, TypedInv, ParserTypeOK
  <2>6. lasttag' \in Opens \cup {"<b>", "<root>"}
    BY <1>2 DEF HandleTag, TypedInv, ParserTypeOK
  <2>7. PICK n \in Nat : n = Len(response) /\ Piece = n + 1
    BY DEF TypedInv, ParserTypeOK, Piece
  <2>8. reasoning_depth \in 0..n /\ action_depth \in 0..n
    BY <2>7 DEF TypedInv, ParserTypeOK
  <2>9. reasoning_depth' \in 0..(n + 1) /\ action_depth' \in 0..(n + 1)
    BY <1>2, <2>8 DEF HandleTag
  <2>10. reasoning_depth' \in 0..MaxTokens /\ action_depth' \in 0..MaxTokens
    BY <2>3, <2>7, <2>9, TokensConstant
  <2> QED  BY <2>2, <2>3, <2>5, <2>6, <2>7, <2>9, <2>10 DEF TypedInv, ParserTypeOK
<1>3. ASSUME NEW t \in Token, ReadToken(t), NEW where, Put(where),
             lasttag' \in Opens \cup {"<b>", "<root>"}
      PROVE  TypedInv'
  <2>1. /\ response' \in Seq(Token) /\ Len(response') <= MaxTokens /\ closed' \in BOOLEAN
        /\ Len(response') = Piece /\ Piece \in 1..MaxTokens
    BY <1>3, ReadTyped
  <2>2. {current_reasoning', current_action', outside_content'} \subseteq Seq(1..MaxTokens)
    <3>1. \A s \in Seq(1..MaxTokens) : Append(s, Piece) \in Seq(1..MaxTokens)
      BY <2>1
    <3>2. /\ current_reasoning \in Seq(1..MaxTokens) /\ current_action \in Seq(1..MaxTokens)
          /\ outside_content \in Seq(1..MaxTokens)
      BY DEF TypedInv, ParserTypeOK
    <3> QED  BY <1>3, <3>1, <3>2 DEF Put
  <2>3. /\ reasoning_depth' = reasoning_depth /\ action_depth' = action_depth
        /\ tag_events' = tag_events /\ content_blocks' = content_blocks
    BY <1>3 DEF Put
  <2>4. reasoning_depth <= Piece /\ action_depth <= Piece
    <3>1. PICK n \in Nat : n = Len(response) /\ Piece = n + 1
      BY DEF TypedInv, ParserTypeOK, Piece
    <3> QED  BY <3>1 DEF TypedInv, ParserTypeOK
  <2> QED  BY <1>3, <2>1, <2>2, <2>3, <2>4 DEF TypedInv, ParserTypeOK
<1>4. ASSUME HandleOther
      PROVE  TypedInv'
  <2>1. "<b>" \in Token
    BY DEF Token
  <2>2. PICK where : Put(where)
    BY <1>4 DEF HandleOther
  <2> QED  BY <1>3, <1>4, <2>1, <2>2 DEF HandleOther
<1>5. ASSUME NEW t \in Data, HandleData(t)
      PROVE  TypedInv'
  <2>1. t \in Token /\ lasttag' \in Opens \cup {"<b>", "<root>"}
    BY <1>5 DEF Token, HandleData, TypedInv, ParserTypeOK
  <2>2. PICK where : Put(where)
    BY <1>5 DEF HandleData
  <2> QED  BY <1>3, <1>5, <2>1, <2>2 DEF HandleData
<1>6. CASE UNCHANGED parserVars
  BY <1>6 DEF parserVars, TypedInv, ParserTypeOK
<1> QED  BY <1>1, <1>2, <1>4, <1>5, <1>6 DEF ParserNext

\* ParserTypeOK (the state of the parser).
THEOREM ParserTyped == ParserSpec => []ParserTypeOK
<1>1. ASSUME ParserInit
      PROVE  TypedInv
  <2>1. response \in Seq(Token) /\ Len(response) = 0
    BY <1>1 DEF ParserInit
  <2>2. {current_reasoning, current_action, outside_content} \subseteq Seq(1..MaxTokens)
    BY <1>1 DEF ParserInit
  <2>3. /\ tag_events \in Seq([tag : {"reasoning", "action"}, opened : BOOLEAN, position : Nat])
        /\ content_blocks \in Seq(Block)
    BY <1>1 DEF ParserInit
  <2>4. /\ reasoning_depth = 0 /\ action_depth = 0 /\ lasttag = "<root>" /\ closed = FALSE
        /\ 0 <= MaxTokens /\ 0 \in 0..MaxTokens
    BY <1>1, TokensConstant DEF ParserInit
  <2>5. lasttag \in Opens \cup {"<b>", "<root>"} /\ closed \in BOOLEAN
    BY <2>4
  <2>6. /\ reasoning_depth \in 0..MaxTokens /\ action_depth \in 0..MaxTokens
        /\ Len(response) <= MaxTokens
        /\ reasoning_depth <= Len(response) /\ action_depth <= Len(response)
    BY <2>1, <2>4
  <2> HIDE DEF Block
  <2> QED  BY <2>1, <2>2, <2>3, <2>5, <2>6 DEF TypedInv, ParserTypeOK
<1>2. TypedInv => ParserTypeOK
  BY DEF TypedInv
<1> QED  BY <1>1, <1>2, TypedStep, PTL DEF ParserSpec
-----------------------------------------------------------------------------
(* A response that is found clean. *)

LEMMA OneAtMost ==
  ASSUME NEW S, IsFiniteSet(S), ~(Cardinality(S) > 1), NEW b \in S, NEW c \in S
  PROVE  b = c
<1> SUFFICES ASSUME b # c
             PROVE  FALSE
  OBVIOUS
<1>1. Cardinality(S) \in Nat
  BY FS_CardinalityType
<1>2. {b, c} \subseteq S
  OBVIOUS
<1>3. Cardinality({b, c}) <= Cardinality(S)
  BY <1>2, FS_Subset
<1>4. Cardinality({b, c}) = 2
  <2>1. IsFiniteSet({b}) /\ Cardinality({b}) = 1
    BY FS_Singleton
  <2>2. {b, c} = {b} \union {c} /\ c \notin {b}
    OBVIOUS
  <2>3. Cardinality({b} \union {c}) = Cardinality({b}) + 1
    <3>1. IsFiniteSet({b}) /\ c \notin {b}
      BY <2>1, <2>2
    <3> QED  BY <3>1, FS_AddElement, Zenon
  <2> QED  BY <2>1, <2>2, <2>3
<1> QED  BY <1>1, <1>3, <1>4

LEMMA BlocksFinite ==
  ASSUME ParserTypeOK, NEW tag
  PROVE  IsFiniteSet(Blocks(tag))
<1>1. PICK n \in Nat : DOMAIN content_blocks = 1..n
  BY DEF ParserTypeOK
<1>2. IsFiniteSet(1..n)
  BY FS_Interval
<1>3. content_blocks \in Surjection(1..n, ToSet(content_blocks))
  BY <1>1 DEF ParserTypeOK, ToSet, Surjection
<1>4. IsFiniteSet(ToSet(content_blocks))
  BY <1>2, <1>3, FS_Surjection
<1>5. Blocks(tag) \subseteq ToSet(content_blocks)
  BY DEF Blocks
<1> QED  BY <1>4, <1>5, FS_Subset

\* CleanHidesNothing (the properties' section of ReactParser).
THEOREM CleanHides == ParserSpec => []CleanHidesNothing
<1>1. ASSUME SortedInv, ParserTypeOK
      PROVE  CleanHidesNothing
  <2>1. SUFFICES ASSUME response_error_type = {}
                 PROVE  /\ ToSet(thoughts) \cap ToSet(action) = {}
                        /\ ToSet(thoughts) \cup ToSet(action) = ToSet(Said)
    BY DEF CleanHidesNothing
  <2>2. Blocks("action") # {} /\ ~MultipleActions /\ Blocks("none") = {}
    BY <2>1 DEF response_error_type
  <2>3. PICK n \in Nat : DOMAIN content_blocks = 1..n /\ \A i \in 1..n : content_blocks[i] \in Block
    BY <1>1 DEF ParserTypeOK
  <2>4. PICK a \in 1..n : content_blocks[a].tag = "action"
    BY <2>2, <2>3 DEF Blocks, ToSet
  <2>5. \A i \in 1..n : content_blocks[i].tag = "action" => content_blocks[i] = content_blocks[a]
    <3>1. IsFiniteSet(Blocks("action")) /\ ~(Cardinality(Blocks("action")) > 1)
      BY <1>1, <2>2, BlocksFinite DEF MultipleActions
    <3>2. \A i \in 1..n : content_blocks[i].tag = "action" => content_blocks[i] \in Blocks("action")
      BY <2>3 DEF Blocks, ToSet
    <3> QED  BY <2>4, <3>1, <3>2, OneAtMost
  <2>6. Blocks("action") = {content_blocks[a]}
    BY <2>3, <2>4, <2>5 DEF Blocks, ToSet
  <2>7. action = content_blocks[a].content
    <3>1. content_blocks[a].position \in Nat
      BY <2>3 DEF Block
    <3>2. Earliest({content_blocks[a]}) = content_blocks[a]
      BY <3>1 DEF Earliest
    <3> QED  BY <2>6, <3>2 DEF action
  <2>8. thoughts = Concat({b \in ToSet(content_blocks) : b.tag # "action"})
    <3>1. ~FiltersMultipleActions
      BY <2>2 DEF FiltersMultipleActions, MultipleActions
    <3>2. \A b \in ToSet(content_blocks) : b.tag # "none"
      BY <2>2 DEF Blocks
    <3>3. {b \in ToSet(content_blocks) :
             /\ b.tag # "action"
             /\ IF FiltersMultipleActions
                THEN b.position <= first_action_open
                ELSE b.tag = "none" /\ first_action_close # 0 => b.position <= first_action_close}
          = {b \in ToSet(content_blocks) : b.tag # "action"}
      BY <3>1, <3>2
    <3> QED  BY <3>3 DEF thoughts
  <2> DEFINE Content(i) == ToSet(content_blocks[i].content)
  <2>9. \A x : x \in ToSet(thoughts) <=>
                 \E i \in 1..n : content_blocks[i].tag # "action" /\ x \in Content(i)
    <3>1. \A i \in 1..n : content_blocks[i] \in {b \in ToSet(content_blocks) : b.tag # "action"}
                            <=> content_blocks[i].tag # "action"
      BY <2>3 DEF ToSet
    <3> QED  BY <1>1, <2>3, <2>8, <3>1, ConcatHolds
  <2>10. ToSet(Said) = UNION {Content(i) : i \in 1..n}
    BY <1>1, <2>3, SaidHolds DEF BlocksHeld
  <2>11. ASSUME NEW i \in 1..n, content_blocks[i].tag # "action"
         PROVE  Content(i) \cap Content(a) = {}
    <3>1. i # a
      BY <2>4, <2>11
    <3> QED  BY <1>1, <2>3, <3>1 DEF SortedInv, BlocksApart
  <2>12. ToSet(action) = Content(a)
    BY <2>7
  <2>13. ASSUME NEW i \in 1..n, NEW x \in Content(i)
         PROVE  x \in ToSet(thoughts) \/ x \in Content(a)
    <3>1. CASE content_blocks[i].tag = "action"
      BY <2>5, <2>13, <3>1
    <3>2. CASE content_blocks[i].tag # "action"
      BY <2>9, <2>13, <3>2
    <3> QED  BY <3>1, <3>2
  <2> HIDE DEF Content
  <2>14. ToSet(thoughts) \cap Content(a) = {}
    BY <2>9, <2>11
  <2>15. ToSet(thoughts) \cup Content(a) = ToSet(Said)
    BY <2>9, <2>10, <2>13
  <2> QED  BY <2>12, <2>14, <2>15
<1> QED  BY <1>1, Sorted, ParserTyped, PTL
-----------------------------------------------------------------------------
(* A response in the form that is asked for. *)

\* How far it has come: the thought is being read, it is over at k, the action is open, ...
IsThought(k) ==
  /\ k >= 1 /\ response[1] = "<thought>"
  /\ \A i \in 2..k : response[i] \in {"text", "<b>"} \/ (response[i] = "json" /\ i = 2)
ThoughtEnds(k) == k >= 3 /\ IsThought(k - 1) /\ response[k] = "</thought>"
ActionOpens(k) == k >= 4 /\ ThoughtEnds(k - 1) /\ response[k] = "<action>"
ActionIsRead(k) == k >= 5 /\ ActionOpens(k - 1) /\ response[k] \in Data
ActionEnds(k) == k >= 6 /\ ActionIsRead(k - 1) /\ response[k] = "</action>"

LEMMA AsAskedEnds ==
  ASSUME NEW n \in Nat, n = Len(response)
  PROVE  AsAsked <=> ActionEnds(n)
<1>1. CASE n >= 6
  <2>1. n - 4 = (n - 3) - 1 /\ n - 3 = (n - 2) - 1 /\ n - 2 = (n - 1) - 1 /\ n - 4 >= 1
    BY <1>1
  <2> QED
    BY <1>1, <2>1 DEF AsAsked, ActionEnds, ActionIsRead, ActionOpens, ThoughtEnds, IsThought
<1>2. CASE ~(n >= 6)
  BY <1>2 DEF AsAsked, ActionEnds
<1> QED  BY <1>1, <1>2

\* What has come so far is what is there when one token is taken off.
LEMMA AskedBefore ==
  ASSUME response \in Seq(Token), NEW t, ReadToken(t), t \in Token, NEW n \in Nat, n = Len(response)
  PROVE  /\ IsThought(n + 1)' => \/ n = 0 /\ t = "<thought>"
                                 \/ IsThought(n) /\ t \in Data \cup {"<b>"} /\ (t = "json" => n = 1)
         /\ ThoughtEnds(n + 1)' => IsThought(n) /\ n >= 2 /\ t = "</thought>"
         /\ ActionOpens(n + 1)' => ThoughtEnds(n) /\ t = "<action>"
         /\ ActionIsRead(n + 1)' => ActionOpens(n) /\ t \in Data
         /\ ActionEnds(n + 1)' => ActionIsRead(n) /\ t = "</action>"
<1>1. response' = Append(response, t)
  BY DEF ReadToken
<1>2. response'[n + 1] = t /\ \A i \in 1..n : response'[i] = response[i]
  BY <1>1
<1>3. ASSUME NEW k \in 1..n
      PROVE  IsThought(k)' <=> IsThought(k)
  <2>1. 1 \in 1..n /\ \A i \in 2..k : i \in 1..n
    BY <1>3
  <2> QED  BY <1>2, <2>1 DEF IsThought
<1>4. ASSUME NEW k \in 1..n
      PROVE  ThoughtEnds(k)' <=> ThoughtEnds(k)
  <2>1. k >= 3 => k - 1 \in 1..n
    OBVIOUS
  <2> QED  BY <1>2, <1>3, <1>4, <2>1 DEF ThoughtEnds
<1>5. ASSUME NEW k \in 1..n
      PROVE  ActionOpens(k)' <=> ActionOpens(k)
  <2>1. k >= 4 => k - 1 \in 1..n
    OBVIOUS
  <2> QED  BY <1>2, <1>4, <1>5, <2>1 DEF ActionOpens
<1>6. ASSUME NEW k \in 1..n
      PROVE  ActionIsRead(k)' <=> ActionIsRead(k)
  <2>1. k >= 5 => k - 1 \in 1..n
    OBVIOUS
  <2> QED  BY <1>2, <1>5, <1>6, <2>1 DEF ActionIsRead
<1>7. (n + 1) - 1 = n /\ (n + 1 >= 3 => n \in 1..n /\ n >= 2)
  OBVIOUS
<1>8. ASSUME IsThought(n + 1)'
      PROVE  \/ n = 0 /\ t = "<thought>"
             \/ IsThought(n) /\ t \in Data \cup {"<b>"} /\ (t = "json" => n = 1)
  <2>1. CASE n = 0
    BY <1>2, <1>8, <2>1 DEF IsThought
  <2>2. CASE n # 0
    <3>1. n + 1 \in 2..(n + 1) /\ \A i \in 2..n : i \in 2..(n + 1)
      BY <2>2
    <3>2. t \in Data \cup {"<b>"} /\ (t = "json" => n + 1 = 2)
      BY <1>2, <1>8, <3>1 DEF IsThought, Data
    <3>3. IsThought(n)'
      BY <1>8, <2>2, <3>1 DEF IsThought
    <3> QED  BY <1>3, <2>2, <3>2, <3>3
  <2> QED  BY <2>1, <2>2
<1>9. ThoughtEnds(n + 1)' => IsThought(n) /\ n >= 2 /\ t = "</thought>"
  BY <1>2, <1>3, <1>7 DEF ThoughtEnds
<1>10. ActionOpens(n + 1)' => ThoughtEnds(n) /\ t = "<action>"
  BY <1>2, <1>4, <1>7 DEF ActionOpens
<1>11. ActionIsRead(n + 1)' => ActionOpens(n) /\ t \in Data
  BY <1>2, <1>5, <1>7 DEF ActionIsRead
<1>12. ActionEnds(n + 1)' => ActionIsRead(n) /\ t = "</action>"
  BY <1>2, <1>6, <1>7 DEF ActionEnds
<1> QED  BY <1>8, <1>9, <1>10, <1>11, <1>12

Thought(k) == [i \in 1..k |-> i + 1]
NothingPending == current_reasoning = <<>> /\ current_action = <<>> /\ outside_content = <<>>

Event(tag, opened, position) == [tag |-> tag, opened |-> opened, position |-> position]
OpenThought == <<Event("reasoning", TRUE, 1)>>
ThoughtTags == Append(OpenThought, Event("reasoning", FALSE, 3))
OpenAction == Append(ThoughtTags, Event("action", TRUE, 4))
AllTags == Append(OpenAction, Event("action", FALSE, 6))

ThoughtBlock(k) == [tag |-> "reasoning", content |-> Thought(k), position |-> 2]
ActionBlock(k) == [tag |-> "action", content |-> <<k>>, position |-> 5]

NothingRead ==
  /\ reasoning_depth = 0 /\ action_depth = 0 /\ NothingPending
  /\ tag_events = <<>> /\ content_blocks = <<>>
ReadingThought(k) ==
  /\ reasoning_depth = 1 /\ action_depth = 0
  /\ lasttag \in {"<thought>", "<b>"} /\ (k = 1 => lasttag = "<thought>")
  /\ current_reasoning = Thought(k - 1) /\ current_action = <<>> /\ outside_content = <<>>
  /\ tag_events = OpenThought /\ content_blocks = <<>>
ThoughtRead(k) ==
  /\ reasoning_depth = 0 /\ action_depth = 0 /\ NothingPending
  /\ tag_events = ThoughtTags /\ content_blocks = <<ThoughtBlock(k - 2)>>
ReadingAction(k) ==
  /\ reasoning_depth = 0 /\ action_depth = 1 /\ lasttag = "<action>" /\ NothingPending
  /\ tag_events = OpenAction /\ content_blocks = <<ThoughtBlock(k - 3)>>
ActionRead(k) ==
  /\ reasoning_depth = 0 /\ action_depth = 1
  /\ current_reasoning = <<>> /\ current_action = <<k>> /\ outside_content = <<>>
  /\ tag_events = OpenAction /\ content_blocks = <<ThoughtBlock(k - 4)>>
AllRead(k) ==
  /\ NothingPending /\ tag_events = AllTags
  /\ content_blocks = <<ThoughtBlock(k - 5)>> \o <<ActionBlock(k - 1)>>

\* What the parser has made of a response in the form that is asked for.
AskedInv ==
  LET n == Len(response)
  IN /\ ~closed => /\ n = 0            => NothingRead
                   /\ IsThought(n)     => ReadingThought(n)
                   /\ ThoughtEnds(n)   => ThoughtRead(n)
                   /\ ActionOpens(n)   => ReadingAction(n)
                   /\ ActionIsRead(n)  => ActionRead(n)
     /\ ActionEnds(n) => AllRead(n)

LEMMA NoneOutside ==
  ASSUME outside_content = <<>>
  PROVE  Pending =
           (IF current_reasoning = <<>> THEN <<>> ELSE << <<"reasoning", current_reasoning>> >>)
           \o (IF current_action = <<>> THEN <<>> ELSE << <<"action", current_action>> >>)
<1> DEFINE r == IF current_reasoning = <<>> THEN <<>> ELSE << <<"reasoning", current_reasoning>> >>
           a == IF current_action = <<>> THEN <<>> ELSE << <<"action", current_action>> >>
           o == [i \in DOMAIN outside_content |-> <<"none", <<outside_content[i]>> >>]
           B == {<<"reasoning", current_reasoning>>, <<"action", current_action>>}
<1>1. DOMAIN o = {} /\ o = <<>>
  <2>1. DOMAIN o = {}
    OBVIOUS
  <2>2. o \in Seq({}) /\ Len(o) = 0
    <3>1. o \in [1..0 -> {}]
      BY <2>1
    <3> HIDE DEF o
    <3> QED  BY <3>1
  <2> HIDE DEF o
  <2> QED  BY <2>1, <2>2
<1>2. r \in Seq(B) /\ a \in Seq(B)
  OBVIOUS
<1>3. Pending = r \o a \o o
  BY DEF Pending
<1> HIDE DEF r, a, o, B
<1>4. Pending = r \o a
  BY <1>1, <1>2, <1>3
<1> QED  BY <1>4 DEF r, a

LEMMA StoresNothing ==
  ASSUME NothingPending, StoreContent, content_blocks \in Seq(Block)
  PROVE  /\ Len(Pending) = 0 /\ content_blocks' = content_blocks /\ NothingPending'
<1>1. Pending = <<>>
  BY NoneOutside DEF NothingPending
<1> DEFINE new == [i \in DOMAIN Pending |-> [tag |-> Pending[i][1], content |-> Pending[i][2],
                                             position |-> event_counter + i]]
<1>2. new = <<>>
  <2>1. DOMAIN new = {}
    BY <1>1
  <2>2. new \in [1..0 -> {}]
    BY <2>1
  <2> HIDE DEF new
  <2> QED  BY <2>1, <2>2
<1>3. content_blocks' = content_blocks \o new
  BY DEF StoreContent
<1> HIDE DEF new
<1>4. content_blocks' = content_blocks
  BY <1>2, <1>3
<1> QED  BY <1>1, <1>4 DEF StoreContent, NothingPending

LEMMA StoresOne ==
  ASSUME NEW tag, NEW s, Pending = << <<tag, s>> >>, StoreContent
  PROVE  /\ Len(Pending) = 1 /\ NothingPending'
         /\ content_blocks' =
              content_blocks \o <<[tag |-> tag, content |-> s, position |-> event_counter + 1]>>
<1> DEFINE new == [i \in DOMAIN Pending |-> [tag |-> Pending[i][1], content |-> Pending[i][2],
                                             position |-> event_counter + i]]
           b == [tag |-> tag, content |-> s, position |-> event_counter + 1]
<1>1. Len(Pending) = 1 /\ DOMAIN Pending = 1..1 /\ Pending[1] = <<tag, s>>
  OBVIOUS
<1>2. DOMAIN new = 1..1 /\ new[1] = b
  BY <1>1
<1>3. new \in [1..1 -> {b}]
  <2>1. \A i \in 1..1 : i = 1
    OBVIOUS
  <2> HIDE DEF b
  <2>2. new = [i \in 1..1 |-> new[i]]
    BY <1>1
  <2> HIDE DEF new
  <2> QED  BY <1>2, <2>1, <2>2
<1>4. content_blocks' = content_blocks \o new
  BY DEF StoreContent
<1> HIDE DEF new, b
<1>5. new = <<b>>
  <2>1. new \in Seq({b}) /\ Len(new) = 1
    BY <1>3
  <2>2. <<b>> \in Seq({b}) /\ Len(<<b>>) = 1 /\ <<b>>[1] = b
    OBVIOUS
  <2> QED  BY <1>2, <2>1, <2>2
<1> QED  BY <1>1, <1>4, <1>5 DEF StoreContent, NothingPending, b

LEMMA ThoughtGrows ==
  ASSUME NEW k \in Nat
  PROVE  Append(Thought(k), k + 2) = Thought(k + 1)
<1>1. Thought(k) \in Seq(Nat) /\ Len(Thought(k)) = k /\ \A i \in 1..k : Thought(k)[i] = i + 1
  <2>1. Thought(k) \in [1..k -> Nat] /\ \A i \in 1..k : Thought(k)[i] = i + 1
    BY DEF Thought
  <2> QED  BY <2>1
<1>2. /\ Thought(k + 1) \in Seq(Nat) /\ Len(Thought(k + 1)) = k + 1
      /\ \A i \in 1..(k + 1) : Thought(k + 1)[i] = i + 1
  <2>1. /\ Thought(k + 1) \in [1..(k + 1) -> Nat]
        /\ \A i \in 1..(k + 1) : Thought(k + 1)[i] = i + 1
    BY DEF Thought
  <2> QED  BY <2>1
<1> DEFINE s == Append(Thought(k), k + 2)
<1>3. s \in Seq(Nat) /\ Len(s) = k + 1 /\ \A i \in 1..(k + 1) : s[i] = i + 1
  BY <1>1
<1> HIDE DEF s
<1>4. s = Thought(k + 1)
  BY <1>2, <1>3
<1> QED  BY <1>4 DEF s

\* One tag after another.
LEMMA AskedTag ==
  ASSUME AskedInv, ParserTypeOK, NEW t \in Tags, HandleTag(t)
  PROVE  AskedInv'
<1>1. PICK n \in Nat : n = Len(response)
  BY DEF ParserTypeOK
<1>2. /\ ~closed /\ closed' = closed /\ ReadToken(t) /\ StoreContent
      /\ t \in Token /\ t \notin Data \cup {"<b>"} /\ response \in Seq(Token)
      /\ content_blocks \in Seq(Block)
  BY DEF HandleTag, ReadToken, Token, Tags, Data, ParserTypeOK
<1>3. Len(response') = n + 1
  BY <1>1, <1>2 DEF ReadToken
<1>4. /\ n = 0 => NothingRead
      /\ IsThought(n) => ReadingThought(n)
      /\ ThoughtEnds(n) => ThoughtRead(n)
      /\ ActionIsRead(n) => ActionRead(n)
  BY <1>1, <1>2 DEF AskedInv
<1>5. /\ IsThought(n + 1)' => n = 0 /\ t = "<thought>"
      /\ ThoughtEnds(n + 1)' => IsThought(n) /\ n >= 2 /\ t = "</thought>"
      /\ ActionOpens(n + 1)' => ThoughtEnds(n) /\ t = "<action>"
      /\ ~ActionIsRead(n + 1)'
      /\ ActionEnds(n + 1)' => ActionIsRead(n) /\ t = "</action>"
  BY <1>1, <1>2, AskedBefore
<1>6. ASSUME NEW p, p = event_counter + Len(Pending) + 1
      PROVE  /\ t \in Opens => tag_events' = Append(tag_events, Event(TagOf[t], TRUE, p))
             /\ t \notin Opens => tag_events' = Append(tag_events, Event(TagOf[t], FALSE, p))
  <2>1. tag_events' = Append(tag_events, Event(TagOf[t], t \in Opens, p))
    BY <1>6 DEF HandleTag, Event
  <2>2. CASE t \in Opens
    <3>1. (t \in Opens) = TRUE
      BY <2>2
    <3> QED  BY <2>1, <3>1, Zenon
  <2>3. CASE t \notin Opens
    <3>1. (t \in Opens) = FALSE
      BY <2>3
    <3> QED  BY <2>1, <2>3, <3>1, Zenon
  <2> QED  BY <2>2, <2>3
<1>7. ASSUME IsThought(n + 1)'
      PROVE  ReadingThought(n + 1)'
  <2>1. n = 0 /\ t = "<thought>" /\ NothingRead
    BY <1>4, <1>5, <1>7
  <2>2. Len(Pending) = 0 /\ content_blocks' = <<>> /\ NothingPending'
    BY <1>2, <2>1, StoresNothing DEF NothingRead
  <2>3. event_counter = 0
    BY <2>1 DEF NothingRead, event_counter
  <2>4. TagOf[t] = "reasoning" /\ t \in Opens
    BY <2>1 DEF TagOf, Tags, Opens
  <2>5. tag_events' = OpenThought
    <3>1. 1 = event_counter + Len(Pending) + 1
      BY <2>2, <2>3
    <3>2. tag_events' = Append(tag_events, Event(TagOf[t], TRUE, 1))
      BY <1>6, <2>4, <3>1
    <3> QED  BY <2>1, <2>4, <3>2 DEF NothingRead, OpenThought
  <2>6. reasoning_depth' = 1 /\ action_depth' = 0 /\ lasttag' = "<thought>"
    BY <2>1, <2>4 DEF HandleTag, NothingRead
  <2>7. Thought(0) = <<>>
    <3>1. Thought(0) \in [1..0 -> Nat]
      BY DEF Thought
    <3> QED  BY <3>1
  <2> QED  BY <2>1, <2>2, <2>5, <2>6, <2>7 DEF ReadingThought, NothingPending
<1>8. ASSUME ThoughtEnds(n + 1)'
      PROVE  ThoughtRead(n + 1)'
  <2>1. n >= 2 /\ t = "</thought>" /\ ReadingThought(n)
    BY <1>4, <1>5, <1>8
  <2>2. Pending = << <<"reasoning", Thought(n - 1)>> >>
    <3>1. Thought(n - 1) # <<>>
      <4>1. Thought(n - 1)[1] = 2 /\ DOMAIN Thought(n - 1) # {}
        BY <2>1 DEF Thought
      <4> QED  BY <4>1
    <3>2. outside_content = <<>> /\ current_action = <<>> /\ current_reasoning = Thought(n - 1)
      BY <2>1 DEF ReadingThought
    <3> QED  BY <3>1, <3>2, NoneOutside
  <2>3. event_counter = 1
    BY <2>1 DEF ReadingThought, event_counter, OpenThought
  <2>4. /\ Len(Pending) = 1 /\ NothingPending'
        /\ content_blocks' = <<>> \o <<[tag |-> "reasoning", content |-> Thought(n - 1),
                                        position |-> 2]>>
    BY <1>2, <2>1, <2>2, <2>3, StoresOne DEF ReadingThought
  <2>5. content_blocks' = <<ThoughtBlock((n + 1) - 2)>>
    <3>1. (n + 1) - 2 = n - 1
      OBVIOUS
    <3> QED  BY <2>4, <3>1 DEF ThoughtBlock
  <2>6. TagOf[t] = "reasoning" /\ t \notin Opens
    BY <2>1 DEF TagOf, Tags, Opens
  <2>7. tag_events' = ThoughtTags
    <3>1. 3 = event_counter + Len(Pending) + 1
      BY <2>3, <2>4
    <3>2. tag_events' = Append(tag_events, Event(TagOf[t], FALSE, 3))
      BY <1>6, <2>6, <3>1
    <3> QED  BY <2>1, <2>6, <3>2 DEF ReadingThought, ThoughtTags
  <2>8. reasoning_depth' = 0 /\ action_depth' = 0
    BY <2>1, <2>6 DEF HandleTag, ReadingThought
  <2> QED  BY <2>4, <2>5, <2>7, <2>8 DEF ThoughtRead
<1>9. ASSUME ActionOpens(n + 1)'
      PROVE  ReadingAction(n + 1)'
  <2>1. t = "<action>" /\ ThoughtRead(n)
    BY <1>4, <1>5, <1>9
  <2>2. Len(Pending) = 0 /\ content_blocks' = content_blocks /\ NothingPending'
    BY <1>2, <2>1, StoresNothing DEF ThoughtRead
  <2>3. event_counter = 3
    BY <2>1 DEF ThoughtRead, event_counter, ThoughtTags, OpenThought
  <2>4. TagOf[t] = "action" /\ t \in Opens
    BY <2>1 DEF TagOf, Tags, Opens
  <2>5. tag_events' = OpenAction
    <3>1. 4 = event_counter + Len(Pending) + 1
      BY <2>3, <2>2
    <3>2. tag_events' = Append(tag_events, Event(TagOf[t], TRUE, 4))
      BY <1>6, <2>4, <3>1
    <3> QED  BY <2>1, <2>4, <3>2 DEF ThoughtRead, OpenAction
  <2>6. reasoning_depth' = 0 /\ action_depth' = 1 /\ lasttag' = "<action>"
    BY <2>1, <2>4 DEF HandleTag, ThoughtRead
  <2>7. content_blocks' = <<ThoughtBlock((n + 1) - 3)>>
    <3>1. (n + 1) - 3 = n - 2
      OBVIOUS
    <3> QED  BY <2>1, <2>2, <3>1 DEF ThoughtRead
  <2> QED  BY <2>2, <2>5, <2>6, <2>7 DEF ReadingAction
<1>10. ASSUME ActionEnds(n + 1)'
       PROVE  AllRead(n + 1)'
  <2>1. t = "</action>" /\ ActionRead(n)
    BY <1>4, <1>5, <1>10
  <2>2. Pending = << <<"action", <<n>> >> >>
    BY <2>1, NoneOutside DEF ActionRead
  <2>3. event_counter = 4
    BY <2>1 DEF ActionRead, event_counter, OpenAction, ThoughtTags, OpenThought
  <2>4. /\ Len(Pending) = 1 /\ NothingPending'
        /\ content_blocks' = <<ThoughtBlock(n - 4)>> \o <<[tag |-> "action", content |-> <<n>>,
                                                           position |-> 5]>>
    BY <1>2, <2>1, <2>2, <2>3, StoresOne DEF ActionRead
  <2>5. content_blocks' = <<ThoughtBlock((n + 1) - 5)>> \o <<ActionBlock((n + 1) - 1)>>
    <3>1. (n + 1) - 5 = n - 4 /\ (n + 1) - 1 = n
      OBVIOUS
    <3> QED  BY <2>4, <3>1 DEF ActionBlock
  <2>6. TagOf[t] = "action" /\ t \notin Opens
    BY <2>1 DEF TagOf, Tags, Opens
  <2>7. tag_events' = AllTags
    <3>1. 6 = event_counter + Len(Pending) + 1
      BY <2>3, <2>4
    <3>2. tag_events' = Append(tag_events, Event(TagOf[t], FALSE, 6))
      BY <1>6, <2>6, <3>1
    <3> QED  BY <2>1, <2>6, <3>2 DEF ActionRead, AllTags
  <2> QED  BY <2>4, <2>5, <2>7 DEF AllRead
<1> QED  BY <1>1, <1>3, <1>5, <1>7, <1>8, <1>9, <1>10 DEF AskedInv

\* One piece after another.
LEMMA AskedPut ==
  ASSUME AskedInv, ParserTypeOK, HandleOther \/ \E t \in Data : HandleData(t)
  PROVE  AskedInv'
<1>1. PICK n \in Nat : n = Len(response)
  BY DEF ParserTypeOK
<1>2. PICK t \in Data \cup {"<b>"}, where \in {"reasoning", "action", "none", "nowhere"} :
        /\ ReadToken(t) /\ Put(where)
        /\ t = "<b>" => lasttag' = "<b>" /\ where = IF Around = "none" THEN "nowhere" ELSE Around
        /\ t # "<b>" =>
             /\ lasttag' = lasttag
             /\ where = IF reasoning_depth > 0 /\ lasttag = "<thought>" THEN "reasoning"
                        ELSE IF (action_depth > 0 /\ lasttag = "<action>") \/ t = "json" THEN "action"
                        ELSE Around
  <2>1. Around \in {"reasoning", "action", "none"} /\ "<b>" \notin Data
    BY DEF Around, Data
  <2> QED  BY <2>1 DEF HandleOther, HandleData
<1>3. ~closed /\ closed' = closed /\ t \in Token /\ t \notin Tags /\ response \in Seq(Token)
  BY <1>2 DEF ReadToken, Token, Tags, Data, ParserTypeOK
<1>4. Len(response') = n + 1 /\ Piece = n + 1
  BY <1>1, <1>2, <1>3 DEF ReadToken, Piece
<1>5. IsThought(n) => ReadingThought(n)
  BY <1>1, <1>3 DEF AskedInv
<1>6. ActionOpens(n) => ReadingAction(n)
  BY <1>1, <1>3 DEF AskedInv
<1>7. /\ IsThought(n + 1)' => IsThought(n) /\ (t = "json" => n = 1)
      /\ ActionIsRead(n + 1)' => ActionOpens(n) /\ t \in Data
      /\ ~ThoughtEnds(n + 1)' /\ ~ActionOpens(n + 1)' /\ ~ActionEnds(n + 1)'
  BY <1>1, <1>2, <1>3, AskedBefore DEF Tags
<1>8. ASSUME IsThought(n + 1)'
      PROVE  ReadingThought(n + 1)'
  <2>1. ReadingThought(n) /\ n >= 1 /\ (t = "json" => n = 1)
    BY <1>5, <1>7, <1>8 DEF IsThought
  <2>2. where = "reasoning"
    BY <1>2, <2>1 DEF ReadingThought, Around, Data
  <2>3. current_reasoning' = Thought((n + 1) - 1)
    <3>1. PICK k \in Nat : k = n - 1 /\ k + 2 = n + 1 /\ k + 1 = (n + 1) - 1
      BY <2>1
    <3>2. current_reasoning' = Append(Thought(k), k + 2)
      BY <1>2, <1>4, <2>1, <2>2, <3>1 DEF Put, ReadingThought
    <3> QED  BY <3>1, <3>2, ThoughtGrows
  <2>4. lasttag' \in {"<thought>", "<b>"} /\ n + 1 # 1
    BY <1>2, <2>1 DEF ReadingThought
  <2> QED  BY <1>2, <2>1, <2>2, <2>3, <2>4 DEF ReadingThought, Put
<1>9. ASSUME ActionIsRead(n + 1)'
      PROVE  ActionRead(n + 1)'
  <2>1. ReadingAction(n) /\ t # "<b>"
    BY <1>6, <1>7, <1>9 DEF Data
  <2>2. where = "action"
    BY <1>2, <2>1 DEF ReadingAction
  <2>3. current_action' = <<n + 1>>
    BY <1>2, <1>4, <2>1, <2>2 DEF Put, ReadingAction, NothingPending
  <2>4. content_blocks' = <<ThoughtBlock((n + 1) - 4)>>
    <3>1. (n + 1) - 4 = n - 3
      OBVIOUS
    <3> QED  BY <1>2, <2>1, <3>1 DEF Put, ReadingAction
  <2> QED  BY <1>2, <2>1, <2>2, <2>3, <2>4 DEF ActionRead, ReadingAction, NothingPending, Put
<1> QED  BY <1>1, <1>4, <1>7, <1>8, <1>9 DEF AskedInv

LEMMA AskedStep ==
  AskedInv /\ ParserTypeOK /\ [ParserNext]_parserVars => AskedInv'
<1> SUFFICES ASSUME AskedInv, ParserTypeOK, [ParserNext]_parserVars
             PROVE  AskedInv'
  OBVIOUS
<1>1. ASSUME Close
      PROVE  AskedInv'
  <2>1. PICK n \in Nat : n = Len(response) /\ content_blocks \in Seq(Block)
    BY DEF ParserTypeOK
  <2>2. response' = response /\ closed' /\ StoreContent /\ tag_events' = tag_events
    BY <1>1 DEF Close
  <2>3. ActionEnds(n)' <=> ActionEnds(n)
    BY <2>2 DEF ActionEnds, ActionIsRead, ActionOpens, ThoughtEnds, IsThought
  <2>4. ASSUME AllRead(n)
        PROVE  AllRead(n)'
    <3>1. content_blocks' = content_blocks /\ NothingPending'
      BY <2>1, <2>2, <2>4, StoresNothing DEF AllRead
    <3> QED  BY <2>2, <2>4, <3>1 DEF AllRead
  <2> QED  BY <2>1, <2>2, <2>3, <2>4 DEF AskedInv
<1>2. CASE UNCHANGED parserVars
  <2>1. PICK n \in Nat : n = Len(response) /\ n = Len(response')
    BY <1>2 DEF ParserTypeOK, parserVars
  <2>2. /\ NothingRead' <=> NothingRead
        /\ ReadingThought(n)' <=> ReadingThought(n)
        /\ ThoughtRead(n)' <=> ThoughtRead(n)
        /\ ReadingAction(n)' <=> ReadingAction(n)
        /\ ActionRead(n)' <=> ActionRead(n)
        /\ AllRead(n)' <=> AllRead(n)
    BY <1>2 DEF parserVars, NothingRead, ReadingThought, ThoughtRead, ReadingAction, ActionRead,
                AllRead, NothingPending
  <2>3. /\ IsThought(n)' <=> IsThought(n)
        /\ ThoughtEnds(n)' <=> ThoughtEnds(n)
        /\ ActionOpens(n)' <=> ActionOpens(n)
        /\ ActionIsRead(n)' <=> ActionIsRead(n)
        /\ ActionEnds(n)' <=> ActionEnds(n)
    BY <1>2 DEF parserVars, IsThought, ThoughtEnds, ActionOpens, ActionIsRead, ActionEnds
  <2> QED  BY <1>2, <2>1, <2>2, <2>3 DEF AskedInv, parserVars
<1> QED  BY <1>1, <1>2, AskedTag, AskedPut DEF ParserNext

\* The tags of such a response, each once.
LEMMA TagsRead ==
  ASSUME tag_events = AllTags
  PROVE  /\ Events("reasoning", TRUE) = {Event("reasoning", TRUE, 1)}
         /\ Events("reasoning", FALSE) = {Event("reasoning", FALSE, 3)}
         /\ Events("action", TRUE) = {Event("action", TRUE, 4)}
         /\ Events("action", FALSE) = {Event("action", FALSE, 6)}
<1> DEFINE E == [tag : {"reasoning", "action"}, opened : BOOLEAN, position : Nat]
<1>1. ASSUME NEW s, NEW set, Holds(s, E, set), NEW e \in E
      PROVE  Holds(Append(s, e), E, set \union {e})
  <2>1. Holds(<<e>>, E, {e})
    BY <1>1 DEF Holds, ToSet
  <2>2. Append(s, e) = s \o <<e>>
    BY <1>1 DEF Holds
  <2> HIDE DEF E
  <2> QED  BY <1>1, <2>1, <2>2, HoldsBoth
<1> DEFINE e1 == Event("reasoning", TRUE, 1)
           e3 == Event("reasoning", FALSE, 3)
           e4 == Event("action", TRUE, 4)
           e6 == Event("action", FALSE, 6)
<1>2. e1 \in E /\ e3 \in E /\ e4 \in E /\ e6 \in E
  BY DEF Event
<1>3. /\ e1.tag = "reasoning" /\ e1.opened = TRUE /\ e3.tag = "reasoning" /\ e3.opened = FALSE
      /\ e4.tag = "action" /\ e4.opened = TRUE /\ e6.tag = "action" /\ e6.opened = FALSE
  BY DEF Event
<1>4. OpenThought = <<e1>> /\ ThoughtTags = Append(OpenThought, e3)
      /\ OpenAction = Append(ThoughtTags, e4) /\ AllTags = Append(OpenAction, e6)
  BY DEF OpenThought, ThoughtTags, OpenAction, AllTags
<1> HIDE DEF E, e1, e3, e4, e6
<1>5. Holds(OpenThought, E, {e1})
  BY <1>2, <1>4 DEF Holds, ToSet
<1>6. Holds(ThoughtTags, E, {e1} \union {e3})
  BY <1>1, <1>2, <1>4, <1>5
<1>7. Holds(OpenAction, E, {e1} \union {e3} \union {e4})
  BY <1>1, <1>2, <1>4, <1>6
<1>8. Holds(AllTags, E, {e1} \union {e3} \union {e4} \union {e6})
  BY <1>1, <1>2, <1>4, <1>7
<1>9. ToSet(tag_events) = {e1, e3, e4, e6}
  BY <1>8 DEF Holds
<1>10. /\ Events("reasoning", TRUE) = {e1} /\ Events("reasoning", FALSE) = {e3}
       /\ Events("action", TRUE) = {e4} /\ Events("action", FALSE) = {e6}
  BY <1>3, <1>9 DEF Events
<1> QED  BY <1>10 DEF e1, e3, e4, e6

LEMMA FirstOfOne ==
  ASSUME NEW tag, NEW opened, NEW p \in Nat
  PROVE  First({Event(tag, opened, p)}) = p
<1>1. {e.position : e \in {Event(tag, opened, p)}} = {p}
  BY DEF Event
<1>2. Min({p}) = p
  BY DEF Min
<1> QED  BY <1>1, <1>2 DEF First

\* Its blocks: the thought and the action.
LEMMA BlocksRead ==
  ASSUME NEW n \in Nat, n >= 6, AllRead(n)
  PROVE  /\ ToSet(content_blocks) = {ThoughtBlock(n - 5), ActionBlock(n - 1)}
         /\ Blocks("reasoning") = {ThoughtBlock(n - 5)} /\ Blocks("action") = {ActionBlock(n - 1)}
         /\ Blocks("none") = {}
         /\ Concat({ThoughtBlock(n - 5)}) = Thought(n - 5)
<1> DEFINE b == ThoughtBlock(n - 5)
           c == ActionBlock(n - 1)
<1>1. b.tag = "reasoning" /\ c.tag = "action" /\ b.content = Thought(n - 5)
  BY DEF ThoughtBlock, ActionBlock
<1>2. content_blocks = <<b>> \o <<c>>
  BY DEF AllRead
<1>3. Thought(n - 5) \in Seq(Nat)
  <2>1. PICK k \in Nat : k = n - 5
    OBVIOUS
  <2>2. Thought(k) \in [1..k -> Nat]
    BY DEF Thought
  <2> QED  BY <2>1, <2>2
<1> HIDE DEF b, c
<1>4. /\ content_blocks \in Seq({b, c}) /\ DOMAIN content_blocks = 1..2
      /\ content_blocks[1] = b /\ content_blocks[2] = c
  BY <1>2
<1>5. ToSet(content_blocks) = {b, c}
  <2>1. 1..2 = {1, 2}
    OBVIOUS
  <2> QED  BY <1>4, <2>1 DEF ToSet
<1>6. Blocks("reasoning") = {b} /\ Blocks("action") = {c} /\ Blocks("none") = {}
  BY <1>1, <1>5 DEF Blocks
<1> DEFINE seqs == [i \in DOMAIN content_blocks |->
                      IF content_blocks[i] \in {b} THEN content_blocks[i].content ELSE <<>>]
<1>7. seqs[1] = Thought(n - 5) /\ seqs[2] = <<>> /\ seqs \in [1..2 -> Seq(Nat)]
  <2>1. \A i \in 1..2 : i = 1 \/ i = 2
    OBVIOUS
  <2>2. c \notin {b}
    BY <1>1
  <2>3. seqs[1] = Thought(n - 5) /\ seqs[2] = <<>>
    BY <1>1, <1>4, <2>2
  <2>4. seqs = [i \in 1..2 |-> seqs[i]] /\ <<>> \in Seq(Nat)
    BY <1>4
  <2> HIDE DEF seqs
  <2> QED  BY <1>3, <2>1, <2>3, <2>4
<1>8. Concat({b}) = FlattenSeq(seqs)
  BY DEF Concat
<1> HIDE DEF seqs
<1>9. seqs \in Seq(Seq(Nat)) /\ Len(seqs) = 2 /\ seqs # <<>>
  <2>1. PICK P : P = Seq(Nat)
    OBVIOUS
  <2>2. seqs \in [1..2 -> P]
    BY <1>7, <2>1
  <2>3. \A k \in Nat : \A s \in [1..k -> P] : s \in Seq(P) /\ Len(s) = k
    OBVIOUS
  <2>4. 2 \in Nat /\ seqs # <<>>
    BY <2>2
  <2> QED  BY <2>1, <2>2, <2>3, <2>4
<1>10. PICK flat \in [1..2 -> Seq(Nat)] : Flattens(flat, seqs) /\ FlattenSeq(seqs) = flat[2]
  BY <1>9, FlattenSeqByParts
<1>11. flat[1] = Thought(n - 5) /\ flat[2] = flat[1] \o <<>>
  <2>1. 2 \in 2..Len(seqs) /\ 2 - 1 = 1
    BY <1>9
  <2> QED  BY <1>7, <1>10, <2>1 DEF Flattens
<1>12. flat[2] = Thought(n - 5)
  BY <1>3, <1>11
<1> QED  BY <1>5, <1>6, <1>8, <1>10, <1>12 DEF b, c

LEMMA AskedIsClean ==
  ASSUME NEW n \in Nat, n >= 6, AllRead(n)
  PROVE  response_error_type = {} /\ action = <<n - 1>> /\ thoughts = Thought(n - 5)
<1> DEFINE b == ThoughtBlock(n - 5)
           c == ActionBlock(n - 1)
<1>1. /\ b.tag = "reasoning" /\ b.position = 2
      /\ c.tag = "action" /\ c.position = 5 /\ c.content = <<n - 1>>
  BY DEF ThoughtBlock, ActionBlock
<1>2. /\ ToSet(content_blocks) = {b, c}
      /\ Blocks("reasoning") = {b} /\ Blocks("action") = {c} /\ Blocks("none") = {}
      /\ Concat({b}) = Thought(n - 5)
  BY BlocksRead
<1> DEFINE e1 == Event("reasoning", TRUE, 1)
           e3 == Event("reasoning", FALSE, 3)
           e4 == Event("action", TRUE, 4)
           e6 == Event("action", FALSE, 6)
<1>3. /\ Events("reasoning", TRUE) = {e1} /\ Events("reasoning", FALSE) = {e3}
      /\ Events("action", TRUE) = {e4} /\ Events("action", FALSE) = {e6}
  BY TagsRead DEF AllRead
<1>4. /\ e1.tag = "reasoning" /\ e1.position = 1 /\ e3.position = 3
      /\ e4.tag = "action" /\ e4.position = 4 /\ e6.position = 6
  BY DEF Event
<1>5. first_reasoning_open = 1 /\ first_action_open = 4 /\ first_action_close = 6
  <2>1. first_reasoning_open = First({e1}) /\ first_action_open = First({e4})
        /\ first_action_close = First({e6})
    BY <1>3, Zenon DEF first_reasoning_open, first_action_open, first_action_close
  <2> QED  BY <2>1, FirstOfOne
<1> HIDE DEF b, c, e1, e3, e4, e6
<1>6. \A x : Cardinality({x}) = 1
  BY FS_Singleton
<1>7. Cardinality({}) = 0
  BY FS_EmptySet
<1>8. ~MultipleActions /\ ~FiltersMultipleActions
  <2>1. ~(Cardinality(Blocks("action")) > 1)
    <3>1. Cardinality(Blocks("action")) = 1
      BY <1>2, <1>6, Zenon
    <3> QED  BY <3>1
  <2> QED  BY <2>1, Zenon DEF MultipleActions, FiltersMultipleActions
<1>9. thoughts = Thought(n - 5) /\ thoughts # <<>>
  <2>1. {d \in ToSet(content_blocks) :
           /\ d.tag # "action"
           /\ IF FiltersMultipleActions
              THEN d.position <= first_action_open
              ELSE d.tag = "none" /\ first_action_close # 0 => d.position <= first_action_close}
        = {b}
    BY <1>1, <1>2, <1>8
  <2>2. thoughts = Concat({b})
    BY <2>1 DEF thoughts
  <2>3. Thought(n - 5) # <<>>
    <3>1. 1 \in DOMAIN Thought(n - 5)
      BY DEF Thought
    <3> QED  BY <3>1
  <2> QED  BY <1>2, <2>2, <2>3
<1>10. action = <<n - 1>>
  <2>1. Earliest({c}) = c
    BY <1>1 DEF Earliest
  <2> QED  BY <1>1, <1>2, <2>1 DEF action
<1>11. ~HasContentAfterAction
  <2>1. HasContentAfterAction =>
          \/ \E d \in {b, c} : d.tag # "action" /\ d.position > first_action_close
          \/ \E e \in {e1} : e.position > first_action_close
    BY <1>2, <1>3, Zenon DEF HasContentAfterAction
  <2> QED  BY <1>1, <1>4, <1>5, <2>1
<1>12. ~IsMalformed
  <2>1. ~IsNested(e1)
    <3>1. /\ {e \in Events("action", TRUE) : e.position < 1} = {e \in {e4} : e.position < 1}
          /\ {e \in Events("action", FALSE) : e.position < 1} = {e \in {e6} : e.position < 1}
      BY <1>3, Zenon
    <3>2. {e \in {e4} : e.position < 1} = {} /\ {e \in {e6} : e.position < 1} = {}
      BY <1>4
    <3>3. IsOpenBefore("action", 1) => Cardinality({}) > Cardinality({})
      BY <3>1, <3>2, Zenon DEF IsOpenBefore, DepthBefore
    <3>4. ~IsOpenBefore("action", 1)
      BY <1>7, <3>3
    <3> QED  BY <1>4, <3>4 DEF IsNested, Opposite
  <2>2. ~IsNested(e4)
    <3>1. /\ {e \in Events("reasoning", TRUE) : e.position < 4} = {e \in {e1} : e.position < 4}
          /\ {e \in Events("reasoning", FALSE) : e.position < 4} = {e \in {e3} : e.position < 4}
      BY <1>3, Zenon
    <3>2. {e \in {e1} : e.position < 4} = {e1} /\ {e \in {e3} : e.position < 4} = {e3}
      BY <1>4
    <3>3. IsOpenBefore("reasoning", 4) => Cardinality({e1}) > Cardinality({e3})
      BY <3>1, <3>2, Zenon DEF IsOpenBefore, DepthBefore
    <3>4. ~IsOpenBefore("reasoning", 4)
      <4>1. Cardinality({e1}) = 1 /\ Cardinality({e3}) = 1
        BY <1>6
      <4> QED  BY <3>3, <4>1
    <3> QED  BY <1>4, <3>4 DEF IsNested, Opposite
  <2>3. \A tag \in {"action", "reasoning"} :
           Cardinality(Events(tag, TRUE)) = Cardinality(Events(tag, FALSE))
    BY <1>3, <1>6
  <2> QED  BY <1>3, <2>1, <2>2, <2>3 DEF IsMalformed
<1>13. ~(Cardinality(Blocks("reasoning")) > 1 \/ Cardinality(Events("reasoning", TRUE)) > 1)
  <2>1. ~(Cardinality({b}) > 1) /\ ~(Cardinality({e1}) > 1)
    BY <1>6
  <2> QED  BY <1>2, <1>3, <2>1, Zenon
<1>14. /\ Blocks("action") # {} /\ ~(Blocks("none") # {})
       /\ ~(/\ 0 < first_action_open /\ first_action_open < first_action_close
            /\ first_action_close < first_reasoning_open)
  BY <1>2, <1>5
<1> QED  BY <1>8, <1>9, <1>10, <1>11, <1>12, <1>13, <1>14 DEF response_error_type

\* AsAskedIsClean (the properties' section of ReactParser).
THEOREM AsAskedClean == ParserSpec => []AsAskedIsClean
<1>1. ASSUME ParserInit
      PROVE  AskedInv
  <2>1. Len(response) = 0 /\ NothingRead
    BY <1>1 DEF ParserInit, NothingRead, NothingPending
  <2>2. \A n \in {0} : ~IsThought(n) /\ ~ThoughtEnds(n) /\ ~ActionOpens(n) /\ ~ActionIsRead(n)
                       /\ ~ActionEnds(n)
    BY DEF IsThought, ThoughtEnds, ActionOpens, ActionIsRead, ActionEnds
  <2> QED  BY <2>1, <2>2 DEF AskedInv
<1>2. ASSUME AskedInv, ParserTypeOK
      PROVE  AsAskedIsClean
  <2>1. SUFFICES ASSUME AsAsked
                 PROVE  /\ response_error_type = {}
                        /\ action = <<Len(response) - 1>>
                        /\ thoughts = [i \in 1..(Len(response) - 5) |-> i + 1]
    BY DEF AsAskedIsClean
  <2>2. PICK n \in Nat : n = Len(response)
    BY <1>2 DEF ParserTypeOK
  <2>3. ActionEnds(n) /\ n >= 6
    BY <2>1, <2>2, AsAskedEnds DEF AsAsked
  <2>4. AllRead(n)
    BY <1>2, <2>2, <2>3 DEF AskedInv
  <2> QED  BY <2>2, <2>3, <2>4, AskedIsClean DEF Thought
<1> QED  BY <1>1, <1>2, AskedStep, ParserTyped, PTL DEF ParserSpec
==============================================================================
