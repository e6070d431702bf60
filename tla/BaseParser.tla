------------------------------ MODULE BaseParser ------------------------------
(***************************************************************************)
(* What every hand-written parser is built on (Common::BaseParser): the    *)
(* token looked at, the names that have become types, and the errors       *)
(* reported so far.  At num_errors_to_halt errors, or when a token is      *)
(* asked for behind the end of the file, continue_parsing_ falls: a        *)
(* parsing function that looks at it then gives up.                        *)
(***************************************************************************)
EXTENDS Tokenizer

CONSTANT num_errors_to_halt

VARIABLES text,                 \* the file
          current_position_,
          token_,               \* the token looked at
          token_string_value_, prev_token_string_value_,
          name_types_,          \* the names that are scanned as types
          num_errors_,          \* counted up to num_errors_to_halt
          num_fatal_errors_,    \* counted up to one
          continue_parsing_,
          blamed                \* what the errors come from

scanVars == <<current_position_, token_, token_string_value_, prev_token_string_value_>>
errorVars == <<num_errors_, num_fatal_errors_, continue_parsing_, blamed>>
baseVars == <<text, scanVars, name_types_, errorVars>>

(* "syntax": a token that does not fit.  "meaning": a declaration, a call  *)
(* or a name that does not fit the ones before it.  Without an error:      *)
(* "skipped", a token was passed over; "undefined", the parser has left    *)
(* what C++ defines.  The first of them is kept until one of meaning comes.*)
ErrorKinds == {"none", "syntax", "meaning", "skipped", "undefined"}

BaseInit(texts) ==
    /\ text \in texts
    /\ current_position_ = 1 /\ token_ = "none"
    /\ token_string_value_ = <<>> /\ prev_token_string_value_ = <<>>
    /\ name_types_ = {}
    /\ num_errors_ = 0 /\ num_fatal_errors_ = 0
    /\ continue_parsing_ = TRUE /\ blamed = "none"

-----------------------------------------------------------------------------
(* n errors are reported at once; the parser may be told to stop.          *)
Report(n, kind, goOn) ==
    /\ num_errors_' = IF num_errors_ + n < num_errors_to_halt THEN num_errors_ + n ELSE num_errors_to_halt
    /\ continue_parsing_' = (continue_parsing_ /\ goOn /\ num_errors_ + n < num_errors_to_halt)
    /\ blamed' = IF blamed = "none" \/ kind = "meaning" THEN kind ELSE blamed

Error(kind) == Report(1, kind, TRUE) /\ UNCHANGED <<text, scanVars, name_types_, num_fatal_errors_>>

FatalError ==
    /\ Report(1, "syntax", TRUE)
    /\ num_fatal_errors_' = 1
    /\ UNCHANGED <<text, scanVars, name_types_>>

(* The end is a token once; asked for again it is an error that stops the  *)
(* parser.                                                                 *)
ReachEnd(end) ==
    /\ current_position_' = end
    /\ token_' = "eof"
    /\ IF token_ = "eof" THEN Report(1, "syntax", FALSE) /\ UNCHANGED num_fatal_errors_
                         ELSE UNCHANGED errorVars
    /\ UNCHANGED <<token_string_value_, prev_token_string_value_>>

(* The name of the token before is kept only while there is a next token.  *)
ReadToken(start) ==
    LET s == ParseToken(text, start)
        spelled == SubSeq(text, start, s.after - 1)
    IN  /\ current_position_' = s.after
        /\ token_' = IF s.token = "name" /\ spelled \in name_types_ THEN "ntype" ELSE s.token
        /\ token_string_value_' = IF s.token = "name" THEN spelled ELSE token_string_value_
        /\ prev_token_string_value_' = token_string_value_
        /\ IF s.token = "error" THEN Report(1, "syntax", TRUE) /\ UNCHANGED num_fatal_errors_
                                ELSE UNCHANGED errorVars

NextToken ==
    LET start == Skip(text, current_position_)
    IN  /\ IF start > Len(text) THEN ReachEnd(start) ELSE ReadToken(start)
        /\ UNCHANGED <<text, name_types_>>

Check(tokens) == token_ \in tokens

Accept(token) == IF Check({token}) THEN NextToken ELSE Error("syntax")
TryAndAccept(token) == IF Check({token}) THEN NextToken ELSE UNCHANGED baseVars
AcceptEmpty(tokens) == IF Check(tokens) THEN UNCHANGED baseVars ELSE Error("syntax")

RegNameType(name) ==
    /\ name_types_' = name_types_ \cup {name}
    /\ UNCHANGED <<text, scanVars, errorVars>>

=============================================================================
