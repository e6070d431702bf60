------------------------------- MODULE Tokenizer -------------------------------
(***************************************************************************)
(* The scanner of the parsers (Common::Tokenizer).  A text is a sequence   *)
(* of pieces: the spelling of a keyword, other letters, digits, a sign, or *)
(* a blank.  What the scanner tells apart is where a run of pieces ends,   *)
(* not the characters of a piece: a word such as `order' is the keyword    *)
(* `or' followed by letters.                                               *)
(***************************************************************************)
EXTENDS Naturals, Sequences, FiniteSetsExt, TLC

CONSTANTS Letters,      \* letters that begin no keyword
          Digits

Keywords == {"if", "else", "int", "bool", "void", "class", "while", "true", "false",
             "return", "or", "and", "not"}
Blanks == {" ", "\n"}

Signs == [s \in {"(", ")", "{", "}", "+", "*", ";", ",", "<", "&", ".", ":"} |->
            CASE s = "(" -> "lpar"   [] s = ")" -> "rpar"   [] s = "{" -> "lcbr"
              [] s = "}" -> "rcbr"   [] s = "+" -> "plus"   [] s = "*" -> "astk"
              [] s = ";" -> "semi"   [] s = "," -> "comma"  [] s = "<" -> "lessthan"
              [] s = "&" -> "amps"   [] s = "." -> "dot"    [] s = ":" -> "colon"]

(* A piece is of one sort.                                                 *)
ASSUME PiecesAssumption ==
    /\ Letters \cap (Digits \cup Keywords \cup Blanks \cup DOMAIN Signs \cup {"="}) = {}
    /\ Digits \cap (Keywords \cup Blanks \cup DOMAIN Signs \cup {"="}) = {}

(* Where the run of pieces of a kind that begins at p ends.                *)
RunEnd(text, p, kind) == Min({q \in p..(Len(text) + 1) : q > Len(text) \/ text[q] \notin kind})

Skip(text, p) == RunEnd(text, p, Blanks)

(* A token and the position after it.                                      *)
Scanned(token, after) == [token |-> token, after |-> after]

(* A numeral ends at the first piece that is no digit, and a keyword right *)
(* after its last letter: letters that follow are another token.           *)
ParseNumerical(text, p) == Scanned("numr", RunEnd(text, p, Digits))

IsEqualTo(text, p) == text[p] = "=" /\ p < Len(text) /\ text[p + 1] = "="

ParseKeyword(text, p) ==
    IF IsEqualTo(text, p) THEN Scanned("equalto", p + 2) ELSE Scanned(text[p], p + 1)

(* A name goes on over keywords and digits.                                *)
ParseName(text, p) == Scanned("name", RunEnd(text, p, Letters \cup Keywords \cup Digits))

(* A character of no token is an error, and the position stays before it.  *)
ParseToken(text, p) ==
    CASE text[p] \in DOMAIN Signs                       -> Scanned(Signs[text[p]], p + 1)
      [] text[p] \in Digits                             -> ParseNumerical(text, p)
      [] text[p] \in Keywords \/ IsEqualTo(text, p)     -> ParseKeyword(text, p)
      [] text[p] \in Letters                            -> ParseName(text, p)
      [] text[p] = "=" /\ ~IsEqualTo(text, p)           -> Scanned("equl", p + 1)
      [] OTHER                                          -> Scanned("error", p)

=============================================================================
