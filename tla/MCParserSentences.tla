------------------------- MODULE MCParserSentences -------------------------
(* Small programs and what one edit makes of them.                         *)
EXTENDS ParserSentences

S == INSTANCE SequencesExt

MCLetters == {"x", "f", "A", "B"}
MCDigits == {"1"}

(* Blanks only where two words would be one.                               *)
IsWord(piece) == piece \in Letters \cup Digits \cup Keywords
Spaced(words) ==
    S!FoldLeft(LAMBDA line, w : IF line # <<>> /\ IsWord(line[Len(line)]) /\ IsWord(w)
                                THEN line \o <<" ", w>> ELSE Append(line, w), <<>>, words)

Members == Spaced(<<"class", "A", "{", "int", "x", ";", "void", "f", "(", "int", "x", ",", "bool", "x", ")",
                    "{", "x", "=", "1", ";", "}", "}", "int", "f", "(", ")", "{", "x", "=", "1", ";", "}">>)
Objects == Spaced(<<"class", "A", "{", "}", "class", "B", ":", "A", ",", "A", "{", "}",
                    "int", "f", "(", "A", "*", "x", ")", "{", "x", ".", "f", "(", "1", ",", "x", ")", "=", "&", "x", ";",
                    "}">>)
Branch == Spaced(<<"int", "f", "(", ")", "{", "int", "x", ",", "f", ";",
                   "if", "(", "x", "<", "1", "and", "x", ")", "{", "x", "=", "x", "+", "1", ";", "}",
                   "else", "{", "x", "=", "1", ";", "}", "}">>)
Loop == Spaced(<<"int", "f", "(", ")", "{", "while", "(", "true", ")", "{", "return", "x", ".", "f", "(", "f",
                 "(", "x", ")", ")", ";", "}", "}">>)

Originals == {Members, Objects, Branch, Loop}

(* A piece is missing or another in its place, or there is one too many: a *)
(* name, a character of no token, or a keyword (the second one no function *)
(* accepts) that makes one word with the letters behind it.                *)
Edits(file) ==
    {file}
      \cup {S!RemoveAt(file, i) : i \in DOMAIN file}
      \cup {S!ReplaceAt(file, i, p) : i \in DOMAIN file, p \in {";"}}
      \cup {S!InsertAt(file, i, p) : i \in DOMAIN file, p \in {"x", "!", "or", "not"}}

(* Anything of up to two pieces for the condition of an if with an else,   *)
(* and a comparison with a sum within a sum, behind a statement that is    *)
(* right or wrong.                                                         *)
Conditions ==
    LET pieces == {"x", ".", "(", ")", "1", "<", ";"}
        file(before, m) == Spaced(<<"int", "f", "(", ")", "{">> \o before \o <<"if", "(">> \o m
                                    \o <<")", "{", "x", "=", "1", ";", "}",
                                         "else", "{", "x", "=", "1", ";", "}", "}">>)
    IN  {file(before, m) : before \in {<<>>, <<"x", "=", ";">>},
                           m \in UNION {[1..n -> pieces] : n \in 0..2}
                                     \cup {<<"1", "+", "(", "1", "<", "1", "+", "1">>}}

(* A class with a parent, its members declared twice, without a name or    *)
(* without a body, and one whose parent is the end of the file.            *)
Classes ==
    LET members == { <<"int", ";">>, <<"int", "x", ";">>, <<"int", "f", ";", "int", "f", ";">>,
                     <<"void", "f", "(", ")", "{", "}">>,
                     <<"void", "f", "(", ")", "{", "}", "int", "f", ";">> }
        file(class, m) == Spaced(class \o m \o <<"}", "int", "f", "(", ")", "{", "x", "=", "1", ";", "}">>)
    IN  {Spaced(<<"class", "A", "{", "}", "class", "B", ":", "A">>)}
          \cup {file(class, m) : m \in members,
                   class \in { <<"class", "A", "{", "int", "x", ";">>,
                              <<"class", "A", "{", "int", "x", ";", "}", "class", "B", ":", "A", "{">> }}

MCTexts == LET texts == Conditions \cup Classes \cup UNION {Edits(t) : t \in Originals} IN texts

(* More errors in one statement than it takes to stop.                     *)
MCNegated ==
    LET block == Spaced(<<"int", "f", "(", ")", "{">> \o [i \in 1..11 |-> "not"] \o <<"}">>)
    IN  {block}

MCFollowed == LET grammars == [dalang |-> Followed] IN grammars
MCDocumented == LET grammars == [dalang |-> Documented] IN grammars

=============================================================================
