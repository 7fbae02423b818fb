---------------------------- MODULE ReactParser ----------------------------
(***************************************************************************)
(* The parser of models that think out loud: it reads a response token by  *)
(* token, sorts its pieces into reasoning, action and the rest, takes the  *)
(* action to execute out of them and reports what is wrong with the form.  *)
(* A piece stands for its place in the response.                           *)
(***************************************************************************)
EXTENDS Integers, SequencesExt, FiniteSetsExt

CONSTANT MaxTokens  \* bound: tokens of a response

ASSUME TokensConstant == MaxTokens \in Nat

\* Data is text or something repair_json makes JSON of; two pieces of data in a row are
\* one.  "<b>" is any tag the parser does not know.
Data   == {"text", "json"}
Tags   == {"<thought>", "</thought>", "<action>", "</action>"}
Token  == Data \cup Tags \cup {"<b>"}
TagOf  == [t \in Tags |-> IF t \in {"<thought>", "</thought>"} THEN "reasoning" ELSE "action"]
Opens  == {"<thought>", "<action>"}

VARIABLES
  response,           \* the tokens read
  reasoning_depth,
  action_depth,
  lasttag,            \* the last tag that was opened
  current_reasoning,  \* pieces not yet stored
  current_action,
  outside_content,
  tag_events,         \* [tag, opened, position]
  content_blocks,     \* [tag, content, position]
  closed              \* the parse is over

parserVars ==
  <<response, reasoning_depth, action_depth, lasttag, current_reasoning, current_action,
    outside_content, tag_events, content_blocks, closed>>

Block == [tag : {"reasoning", "action", "none"}, content : Seq(1..MaxTokens), position : Nat]

ParserTypeOK ==
  /\ response \in Seq(Token) /\ Len(response) <= MaxTokens
  /\ reasoning_depth \in 0..MaxTokens /\ action_depth \in 0..MaxTokens
  /\ lasttag \in Opens \cup {"<b>", "<root>"}
  /\ {current_reasoning, current_action, outside_content} \subseteq Seq(1..MaxTokens)
  /\ tag_events \in Seq([tag : {"reasoning", "action"}, opened : BOOLEAN, position : Nat])
  /\ content_blocks \in Seq(Block) /\ closed \in BOOLEAN

ParserInit ==
  /\ response = <<>> /\ reasoning_depth = 0 /\ action_depth = 0 /\ lasttag = "<root>"
  /\ current_reasoning = <<>> /\ current_action = <<>> /\ outside_content = <<>>
  /\ tag_events = <<>> /\ content_blocks = <<>> /\ closed = FALSE
-----------------------------------------------------------------------------
(***************************************************************************)
(* Reading.                                                                *)
(***************************************************************************)
event_counter == Len(tag_events) + Len(content_blocks)

Piece == Len(response) + 1  \* the piece that is read

ReadToken(t) ==
  /\ ~closed
  /\ Len(response) < MaxTokens
  /\ response' = Append(response, t)
  /\ UNCHANGED closed

\* _store_content: first what is pending of the reasoning, then of the action, then the
\* rest piece by piece, whatever the order they came in.
Pending ==
  (IF current_reasoning = <<>> THEN <<>> ELSE << <<"reasoning", current_reasoning>> >>)
  \o (IF current_action = <<>> THEN <<>> ELSE << <<"action", current_action>> >>)
  \o [i \in DOMAIN outside_content |-> <<"none", <<outside_content[i]>> >>]

StoreContent ==
  /\ content_blocks' = content_blocks \o
       [i \in DOMAIN Pending |-> [tag |-> Pending[i][1], content |-> Pending[i][2],
                                  position |-> event_counter + i]]
  /\ current_reasoning' = <<>> /\ current_action' = <<>> /\ outside_content' = <<>>

\* Variant: a closing tag that nothing opened takes the depth below zero.
HandleTagBelowZero(t) ==
  /\ ReadToken(t) /\ StoreContent
  /\ tag_events' = Append(tag_events, [tag |-> TagOf[t], opened |-> t \in Opens,
                                       position |-> event_counter + Len(Pending) + 1])
  /\ lasttag' = IF t \in Opens THEN t ELSE lasttag
  /\ LET Depth(d) == IF t \in Opens THEN d + 1 ELSE d - 1
     IN IF TagOf[t] = "reasoning"
        THEN reasoning_depth' = Depth(reasoning_depth) /\ UNCHANGED action_depth
        ELSE action_depth' = Depth(action_depth) /\ UNCHANGED reasoning_depth

\* handle_starttag and handle_endtag of a tag the parser knows.
HandleTag(t) ==
  /\ ReadToken(t) /\ StoreContent
  /\ tag_events' = Append(tag_events, [tag |-> TagOf[t], opened |-> t \in Opens,
                                       position |-> event_counter + Len(Pending) + 1])
  /\ lasttag' = IF t \in Opens THEN t ELSE lasttag
  /\ LET Depth(d) == IF t \in Opens THEN d + 1 ELSE IF d = 0 THEN 0 ELSE d - 1
     IN IF TagOf[t] = "reasoning"
        THEN reasoning_depth' = Depth(reasoning_depth) /\ UNCHANGED action_depth
        ELSE action_depth' = Depth(action_depth) /\ UNCHANGED reasoning_depth

\* One piece goes to the reasoning, to the action or to the rest.
Put(where) ==
  /\ current_reasoning' = IF where = "reasoning" THEN Append(current_reasoning, Piece)
                                                 ELSE current_reasoning
  /\ current_action' = IF where = "action" THEN Append(current_action, Piece) ELSE current_action
  /\ outside_content' = IF where = "none" THEN Append(outside_content, Piece)
                                          ELSE outside_content
  /\ UNCHANGED <<reasoning_depth, action_depth, tag_events, content_blocks>>

Around == IF reasoning_depth > 0 THEN "reasoning" ELSE IF action_depth > 0 THEN "action" ELSE "none"

\* The markup of an unknown tag is kept inside the known ones and dropped outside.
HandleOther ==
  /\ ReadToken("<b>") /\ lasttag' = "<b>"
  /\ Put(IF Around = "none" THEN "nowhere" ELSE Around)

\* Variant: JSON is looked for first.
HandleDataJsonFirst(t) ==
  /\ ReadToken(t)
  /\ response # <<>> => Last(response) \notin Data
  /\ UNCHANGED lasttag
  /\ Put(IF t = "json" THEN "action"
         ELSE IF reasoning_depth > 0 /\ lasttag = "<thought>" THEN "reasoning"
         ELSE IF action_depth > 0 /\ lasttag = "<action>" THEN "action"
         ELSE Around)

\* Direct children first; JSON anywhere else is taken for an action.
HandleData(t) ==
  /\ ReadToken(t)
  /\ response # <<>> => Last(response) \notin Data
  /\ UNCHANGED lasttag
  /\ Put(IF reasoning_depth > 0 /\ lasttag = "<thought>" THEN "reasoning"
         ELSE IF (action_depth > 0 /\ lasttag = "<action>") \/ t = "json" THEN "action"
         ELSE Around)

\* Variant: what is pending at the end is not stored.
CloseWithoutStoring ==
  /\ ~closed /\ closed' = TRUE
  /\ UNCHANGED <<response, reasoning_depth, action_depth, lasttag, tag_events,
                 content_blocks, current_reasoning, current_action, outside_content>>

Close ==
  /\ ~closed /\ closed' = TRUE /\ StoreContent
  /\ UNCHANGED <<response, reasoning_depth, action_depth, lasttag, tag_events>>

ParserNext ==
  Close \/ HandleOther \/ (\E t \in Tags : HandleTag(t)) \/ (\E t \in Data : HandleData(t))

ParserSpec == ParserInit /\ [][ParserNext]_parserVars
-----------------------------------------------------------------------------
(***************************************************************************)
(* What is taken out of it.                                                *)
(***************************************************************************)
Events(tag, opened) ==
  {e \in ToSet(tag_events) : e.tag = tag /\ e.opened = opened}
\* No two blocks are at one position: a set of them counts as their list does.
Blocks(tag) == {b \in ToSet(content_blocks) : b.tag = tag}

\* Position of the first of these, or 0.
First(events) == IF events = {} THEN 0 ELSE Min({e.position : e \in events})

first_reasoning_open == First(Events("reasoning", TRUE))
first_action_open    == First(Events("action", TRUE))
first_action_close   == First(Events("action", FALSE))

\* What these blocks hold, in the order of the response.
Concat(blocks) ==
  FlattenSeq([i \in DOMAIN content_blocks |->
                IF content_blocks[i] \in blocks THEN content_blocks[i].content ELSE <<>>])

Earliest(blocks) == CHOOSE b \in blocks : \A c \in blocks : b.position <= c.position

\* ReActContentExtractor.action: the first action block, or else all that is untagged.
action ==
  IF Blocks("action") # {} THEN Earliest(Blocks("action")).content ELSE Concat(Blocks("none"))

FiltersMultipleActions ==
  /\ Cardinality(Blocks("action")) > 1 /\ first_action_close # 0 /\ first_action_open # 0
  /\ \E e \in Events("reasoning", TRUE) : e.position > first_action_close

\* ReActContentExtractor.thoughts.
thoughts ==
  Concat({b \in ToSet(content_blocks) :
            /\ b.tag # "action"
            /\ IF FiltersMultipleActions
               THEN b.position <= first_action_open
               ELSE (b.tag = "none" /\ first_action_close # 0) => b.position <= first_action_close})
-----------------------------------------------------------------------------
(***************************************************************************)
(* What is wrong with it: ReActValidator.errors.                           *)
(***************************************************************************)
DepthBefore(tag, position) ==
  [open |-> Cardinality({e \in Events(tag, TRUE) : e.position < position}),
   shut |-> Cardinality({e \in Events(tag, FALSE) : e.position < position})]

IsOpenBefore(tag, position) ==
  DepthBefore(tag, position).open > DepthBefore(tag, position).shut

Opposite(tag) == IF tag = "action" THEN "reasoning" ELSE "action"

\* The first place after e where as many tags like it are closed as opened.
ClosesAt(e) ==
  First({c \in Events(e.tag, FALSE) :
           /\ c.position > e.position
           /\ Cardinality({o \in Events(e.tag, TRUE) : o.position \in e.position..c.position})
              = Cardinality({o \in Events(e.tag, FALSE) : o.position \in e.position..c.position})})

IsNested(e) ==
  /\ IsOpenBefore(Opposite(e.tag), e.position)
  /\ ClosesAt(e) # 0 /\ IsOpenBefore(Opposite(e.tag), ClosesAt(e))

HasContentAfterAction ==
  /\ first_action_close # 0
  /\ \/ \E b \in ToSet(content_blocks) :
          b.tag # "action" /\ b.position > first_action_close
     \/ \E e \in Events("reasoning", TRUE) : e.position > first_action_close

\* Variant: the tags are counted, not the blocks.
MultipleActionTags == Cardinality(Events("action", TRUE)) > 1

\* maximum_allowed_actions is 1.
MultipleActions == Cardinality(Blocks("action")) > 1

IsMalformed ==
  \/ \E e \in Events("action", TRUE) \cup Events("reasoning", TRUE) : IsNested(e)
  \/ \E tag \in {"action", "reasoning"} :
       Cardinality(Events(tag, TRUE)) # Cardinality(Events(tag, FALSE))

response_error_type ==
  {e \in {"reasoning_absent"}                 : thoughts = <<>>} \cup
  {e \in {"action_not_present"}               : Blocks("action") = {}} \cup
  {e \in {"action_placed_before_reasoning"}   :
     /\ 0 < first_action_open /\ first_action_open < first_action_close
     /\ first_action_close < first_reasoning_open} \cup
  {e \in {"content_after_action_complete"}    : HasContentAfterAction} \cup
  {e \in {"multiple_actions_present"}         : MultipleActions} \cup
  {e \in {"reasoning_split_across_blocks"}    :
     Cardinality(Blocks("reasoning")) > 1 \/ Cardinality(Events("reasoning", TRUE)) > 1} \cup
  {e \in {"reasoning_mixed_with_untagged_text"} : Blocks("none") # {}} \cup
  {e \in {"malformed_tag_structure"}          : IsMalformed}
-----------------------------------------------------------------------------
(***************************************************************************)
(* Properties of a response that has been read to its end.                 *)
(***************************************************************************)
Kept == {i \in DOMAIN response :
          \/ response[i] \in Data
          \/ /\ response[i] = "<b>"
             /\ \E o \in 1..i : response[o] \in Opens
                  /\ \A c \in o..i : response[c] \notin Tags \ Opens}

Said == Concat(ToSet(content_blocks))

\* Sorting the pieces into blocks loses none and doubles none: whatever is unclosed, nested
\* or pending when a tag comes or the response ends, each piece is in one block, once
\* (_store_content, which every tag and close() call).
NothingLostOrDoubled ==
  closed => /\ IsInjective(Said)
            /\ Kept \subseteq ToSet(Said)

\* A response that is found clean has nothing left out: what the player is recorded to have
\* thought and the action that is executed are all of it, and share nothing.  The filters of
\* _extract_thoughts and the choice of an action drop pieces, so each of those has to come
\* with an error.
CleanHidesNothing ==
  closed /\ response_error_type = {} =>
    /\ ToSet(thoughts) \cap ToSet(action) = {}
    /\ ToSet(thoughts) \cup ToSet(action) = ToSet(Said)

\* The form the players are asked for: one thought, one action, and nothing else but markup
\* in the thought.  (JSON that follows markup in the thought is taken for an action.)
AsAsked ==
  LET n == Len(response)
  IN /\ n >= 6
     /\ response[1] = "<thought>" /\ response[n - 3] = "</thought>"
     /\ response[n - 2] = "<action>" /\ response[n - 1] \in Data /\ response[n] = "</action>"
     /\ \A i \in 2..n - 4 : response[i] \in {"text", "<b>"} \/ (response[i] = "json" /\ i = 2)

\* A response in the form that is asked for is accused of nothing and its action, the whole
\* of it, is the one executed; the thought is kept with its markup.
AsAskedIsClean ==
  closed /\ AsAsked =>
    /\ response_error_type = {}
    /\ action = <<Len(response) - 1>>
    /\ thoughts = [i \in 1..(Len(response) - 5) |-> i + 1]
=============================================================================
