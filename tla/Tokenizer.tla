----------------------------- MODULE Tokenizer -----------------------------
(***************************************************************************)
(* The Tokenizer of auto/auto.py: the tokens of one header, read from left *)
(* to right, with room for one token that was put back.  clang, which      *)
(* produces the tokens, is external.                                       *)
(*                                                                         *)
(* A token is a record: its kind, its spelling sp as a sequence of words   *)
(* (one word, except for the fake tokens that the parser makes of several  *)
(* tokens) and first, whether it is the first of a line.  Lines joined by  *)
(* a backslash are one line here; a comment is spelled by its first word.  *)
(***************************************************************************)
EXTENDS Integers, Sequences, SequencesExt

CONSTANT NONE      \* Python's None

VARIABLES
  tokens,          \* the tokens of the header
  current,         \* current_token_index: the next token to read, from 1
  next_token       \* the token that was put back, or NONE

tokenizerVars == <<tokens, current, next_token>>

\* Words: strings, and so are those that the parser adds of its own.
Word == STRING \cup {";", "}", "const"}
Kinds == {"keyword", "identifier", "punctuation", "comment", "literal"}
Token == [kind : Kinds, sp : Seq(Word), first : BOOLEAN]

Is(token, word) == token.sp = <<word>>
IsOneOf(token, words) == \E w \in words : Is(token, w)
IsComment(token) == token.kind = "comment"

TokenizerInit ==
  /\ current = 1
  /\ next_token = NONE

\* A mistake for HasTokens: the last token does not count either.
HasTokensButLast == current < Len(tokens)

\* A token that was put back does not count.
HasTokens == current <= Len(tokens)

\* Where reading stops: comments are passed over, but not the last token.
Landing(skip_comments) ==
  IF skip_comments
  THEN CHOOSE i \in current..Len(tokens) :
         /\ i = Len(tokens) \/ ~IsComment(tokens[i])
         /\ \A j \in current..(i - 1) : IsComment(tokens[j])
  ELSE current

\* What get_next_token returns, and what it does.
Unread(skip_comments) == IF HasTokens THEN tokens[Landing(skip_comments)] ELSE NONE
NextToken(skip_comments) == IF next_token # NONE THEN next_token ELSE Unread(skip_comments)

PastUnread(skip_comments) == IF HasTokens THEN Landing(skip_comments) + 1 ELSE current
Advance(skip_comments) ==
  current' = IF next_token = NONE THEN PastUnread(skip_comments) ELSE current

Read(skip_comments) ==
  /\ next_token' = NONE
  /\ Advance(skip_comments)
  /\ UNCHANGED tokens

\* push_token; with a token already put back it raises.
CanPush == next_token = NONE
Push(token) ==
  /\ CanPush
  /\ next_token' = token
  /\ UNCHANGED <<tokens, current>>

\* push_token(get_next_token()), and get_next_token() twice after a push.
ReadAndPush(skip_comments) ==
  /\ next_token' = NextToken(skip_comments)
  /\ Advance(skip_comments)
  /\ UNCHANGED tokens
ReadBoth(skip_comments) ==
  /\ ~CanPush
  /\ next_token' = NONE
  /\ current' = PastUnread(skip_comments)
  /\ UNCHANGED tokens

\* The place of the token that was read, or put back, last; and of the next.
LastRead == current - 1
Upcoming == IF next_token = NONE THEN current ELSE LastRead
=============================================================================
