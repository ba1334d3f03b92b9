------------------------------- MODULE Source -------------------------------
(***************************************************************************)
(* From a file, or a text, to tokens: the scanner reads the file, finds    *)
(* the range of every line that is not comment and cuts the code out of    *)
(* the text by these ranges; the lexer walks over the code.                *)
(*                                                                         *)
(* Texts are sequences of characters.  Positions count from 1, a range ends*)
(* in front of its second position.                                        *)
(***************************************************************************)
EXTENDS Integers, Sequences, FiniteSets, SequencesExt

CONSTANTS Chars,      \* the characters of texts
          Files,      \* contents of files, and texts
          MaxWaiting  \* bound: lines read of a file that is not there

VARIABLES
    source,          \* file, missing (a file that is not there) or text
    given,           \* what is in the file, or the text itself
    rest,            \* what is still to be read of the file
    text,            \* what was read
    i,               \* the scanner's position in it
    line_start_pos,  \* where its line begins
    comment_flag,    \* the line has a comment
    ranges,          \* ranges of code, each [from, to]
    code,            \* the text of these ranges
    at,              \* the lexer's position in it
    word,            \* letters and digits not yet made a token
    tokens,
    status           \* reading, scanning, lexing, lexed or thrown

vars == <<source, given, rest, text, i, line_start_pos, comment_flag, ranges,
          code, at, word, tokens, status>>

reading == <<source, given, rest, text>>
scanning == <<i, line_start_pos, comment_flag, ranges>>
lexing == <<code, at, word, tokens>>

-----------------------------------------------------------------------------
(* Characters. *)

NewLine == "nl"
Hash == "#"

Blanks == {" ", "tab"}

ASSUME SourceConstants == Files \subseteq Seq(Chars) /\ NewLine \in Chars /\ " " \in Chars

DigitsInOrder == <<"0", "1", "2", "3", "4", "5", "6", "7", "8", "9">>
Digits == ToSet(DigitsInOrder)
HexLetters == {"a", "b", "c", "d", "e", "f", "A", "B", "C", "D", "E", "F"}
Letters ==
    HexLetters \cup {"g", "h", "i", "j", "k", "l", "m", "n", "o", "p", "q", "r", "s", "t",
                     "u", "v", "w", "x", "y", "z", "G", "H", "I", "J", "K", "L", "M", "N",
                     "O", "P", "Q", "R", "S", "T", "U", "V", "W", "X", "Y", "Z", "_"}
AlphaNumeric == Letters \cup Digits

BasicCharacters ==
    {"(", ")", "[", "]", "{", "}", ".", ",", ":", ";", "@", "$", "%", "quote",
     "+", "-", "*", "/"}

-----------------------------------------------------------------------------
(* Words. *)

Keywords ==
    { <<"t", "h", "i", "s">>, <<"v", "a", "r">>, <<"c", "o", "n", "s", "t">>,
      <<"s", "t", "r", "i", "n", "g">>, <<"s", "e", "c", "t", "i", "o", "n">>,
      <<"l", "a", "b", "e", "l">>, <<"f", "u", "n", "c">>, <<"s", "t", "r", "u", "c", "t">> }

\* All of w from its n-th character on is in the set.
AllFrom(w, n, chars) == \A k \in n .. Len(w) : w[k] \in chars

Prefixed(w, letter) == Len(w) >= 2 /\ w[1] = "0" /\ w[2] = letter

\* A word with a digit in front must be a number, whole.
WrongNumber(w) ==
    /\ w[1] \in Digits
    /\ IF Prefixed(w, "b") THEN ~AllFrom(w, 3, {"0", "1"})
       ELSE IF Prefixed(w, "x") THEN ~AllFrom(w, 3, Digits \cup HexLetters)
       ELSE ~AllFrom(w, 1, Digits)

WordToken(w) ==
    [type |-> IF w[1] \in Digits THEN "Number" ELSE IF w \in Keywords THEN "Kw" ELSE "Id",
     lit  |-> w]
MarkToken(c) == [type |-> "Mark", lit |-> <<c>>]

-----------------------------------------------------------------------------
Init ==
    /\ source \in {"file", "missing", "text"}
    /\ given \in Files
    /\ source = "missing" => given = <<>>
    /\ rest = (IF source = "file" THEN given ELSE <<>>)
    /\ text = <<>>
    /\ i = 1 /\ line_start_pos = 1 /\ comment_flag = FALSE
    /\ ranges = <<>>
    /\ code = (IF source = "text" THEN given ELSE <<>>)
    /\ at = 1 /\ word = <<>> /\ tokens = <<>>
    /\ status = (IF source = "text" THEN "lexing" ELSE "reading")

-----------------------------------------------------------------------------
(* Reading: every line gets a new line at its end, the one that meets the   *)
(* end of the file, too.                                                    *)

ReadLine ==
    /\ status = "reading" /\ source = "file"
    /\ \E n \in DOMAIN rest :
          /\ rest[n] = NewLine /\ \A m \in 1 .. n - 1 : rest[m] # NewLine
          /\ text' = text \o SubSeq(rest, 1, n)
          /\ rest' = SubSeq(rest, n + 1, Len(rest))
    /\ UNCHANGED <<source, given, scanning, lexing, status>>

ReadLast ==
    /\ status = "reading" /\ source = "file"
    /\ ~Contains(rest, NewLine)
    /\ text' = Append(text \o rest, NewLine)
    /\ rest' = <<>>
    /\ status' = "scanning"
    /\ UNCHANGED <<source, given, scanning, lexing>>

\* A file that did not open has failed, but is never at its end.
ReadMissing ==
    /\ status = "reading" /\ source = "missing"
    /\ Len(text) < MaxWaiting
    /\ text' = Append(text, NewLine)
    /\ UNCHANGED <<source, given, rest, scanning, lexing, status>>

-----------------------------------------------------------------------------
(* Scanning. *)

AtChar == status = "scanning" /\ i <= Len(text)

\* Mutant of CodeEnds: a new line is a blank, too.
EndsOnAnyLine(n) ==
    { k \in 1 .. n :
        /\ \A m \in k .. n - 1 : text[m] \in Blanks \cup {NewLine}
        /\ k = 1 \/ text[k - 1] \notin Blanks \cup {NewLine} }

\* The code in front of a comment ends in front of the blanks: the walk back
\* stops at anything else.  If the blanks go back to the beginning of the text,
\* the byte before it is read: what it is decides whether the range is empty
\* or, its end wrapped around, everything.
BlanksFrom(n) ==
    { k \in 1 .. n :
        /\ \A m \in k .. n - 1 : text[m] \in Blanks
        /\ k = 1 \/ text[k - 1] \notin Blanks }
CodeEnds(n) == BlanksFrom(n) \cup (IF 1 \in BlanksFrom(n) THEN {Len(text) + 1} ELSE {})

Comment ==
    /\ AtChar /\ text[i] = Hash
    /\ comment_flag' = TRUE
    /\ \E end \in CodeEnds(i) :
          ranges' = Append(ranges, [from |-> line_start_pos, to |-> end])
    /\ i' = i + 1
    /\ UNCHANGED <<reading, line_start_pos, lexing, status>>

\* Mutant of LineEnd: the flag is not reset.
EndInComment ==
    /\ AtChar /\ text[i] = NewLine
    /\ ranges' = IF ~comment_flag /\ line_start_pos # i
                 THEN Append(ranges, [from |-> line_start_pos, to |-> i]) ELSE ranges
    /\ line_start_pos' = i + 1
    /\ i' = i + 1
    /\ UNCHANGED <<reading, comment_flag, lexing, status>>

\* Another: the next line begins with the new line of this one.
StartAtNewLine ==
    /\ AtChar /\ text[i] = NewLine
    /\ ranges' = IF ~comment_flag /\ line_start_pos # i
                 THEN Append(ranges, [from |-> line_start_pos, to |-> i]) ELSE ranges
    /\ line_start_pos' = i
    /\ comment_flag' = FALSE
    /\ i' = i + 1
    /\ UNCHANGED <<reading, lexing, status>>

LineEnd ==
    /\ AtChar /\ text[i] = NewLine
    /\ ranges' = IF ~comment_flag /\ line_start_pos # i
                 THEN Append(ranges, [from |-> line_start_pos, to |-> i]) ELSE ranges
    /\ line_start_pos' = i + 1
    /\ comment_flag' = FALSE
    /\ i' = i + 1
    /\ UNCHANGED <<reading, lexing, status>>

\* Mutant of SkipChar: a blank does not move the scanner.
StayAtBlank ==
    /\ AtChar /\ text[i] \notin {Hash, NewLine}
    /\ i' = IF text[i] \in Blanks THEN i ELSE i + 1
    /\ UNCHANGED <<reading, line_start_pos, comment_flag, ranges, lexing, status>>

SkipChar ==
    /\ AtChar /\ text[i] \notin {Hash, NewLine}
    /\ i' = i + 1
    /\ UNCHANGED <<reading, line_start_pos, comment_flag, ranges, lexing, status>>

Piece(s, r) == Append(SubSeq(s, r.from, r.to - 1), NewLine)

\* The pieces of s in the first 0, 1, ... ranges of rs.
Pieces(s, rs) ==
    LET upTo[n \in 0 .. Len(rs)] ==
            IF n = 0 THEN <<>> ELSE upTo[n - 1] \o Piece(s, rs[n])
    IN upTo

Cut ==
    /\ status = "scanning" /\ i > Len(text)
    /\ code' = Pieces(text, ranges)[Len(ranges)]
    /\ status' = "lexing"
    /\ UNCHANGED <<reading, scanning, at, word, tokens>>

-----------------------------------------------------------------------------
(* Lexing. *)

AtCode == status = "lexing" /\ at <= Len(code)

Lengthen ==
    /\ AtCode /\ code[at] \in AlphaNumeric
    /\ word' = Append(word, code[at])
    /\ at' = at + 1
    /\ UNCHANGED <<reading, scanning, code, tokens, status>>

\* Any other character ends a word, and is a token if it has a meaning.
Separate ==
    /\ AtCode /\ code[at] \notin AlphaNumeric
    /\ IF word # <<>> /\ WrongNumber(word)
       THEN status' = "thrown" /\ UNCHANGED <<at, word, tokens>>
       ELSE /\ tokens' = tokens
                           \o (IF word = <<>> THEN <<>> ELSE <<WordToken(word)>>)
                           \o (IF code[at] \in BasicCharacters THEN <<MarkToken(code[at])>> ELSE <<>>)
            /\ word' = <<>>
            /\ at' = at + 1
            /\ UNCHANGED status
    /\ UNCHANGED <<reading, scanning, code>>

\* A word that ends with the text is not made a token.
Lexed ==
    /\ status = "lexing" /\ at > Len(code)
    /\ status' = "lexed"
    /\ UNCHANGED <<reading, scanning, lexing>>

Next ==
    \/ ReadLine \/ ReadLast \/ ReadMissing
    \/ Comment \/ LineEnd \/ SkipChar \/ Cut
    \/ Lengthen \/ Separate \/ Lexed

Spec == Init /\ [][Next]_vars

\* One thread reads, scans and lexes without waiting for anyone.
FairSpec == Spec /\ WF_vars(Next)

-----------------------------------------------------------------------------
(* The tokens of a text, found without walking: a mark is a token, and so is*)
(* every run of letters and digits that something follows.                  *)

\* Positions of s that are code: in front of the first # of their line.
CodeOf(s) ==
    { p \in DOMAIN s :
        ~\E h \in 1 .. p : s[h] = Hash /\ \A m \in h .. p : s[m] # NewLine }

RunFrom(s, p) ==
    SubSeq(s, p, CHOOSE q \in p .. Len(s) :
        /\ \A m \in p .. q : s[m] \in AlphaNumeric
        /\ q = Len(s) \/ s[q + 1] \notin AlphaNumeric)

IsStart(s, p) ==
    \/ s[p] \in BasicCharacters
    \/ s[p] \in AlphaNumeric /\ (p = 1 \/ s[p - 1] \notin AlphaNumeric)

Starts(s) == { p \in DOMAIN s : IsStart(s, p) }
Words(s) == { RunFrom(s, p) : p \in { q \in Starts(s) : s[q] \in AlphaNumeric } }
TokenAt(s, p) == IF s[p] \in BasicCharacters THEN MarkToken(s[p]) ELSE WordToken(RunFrom(s, p))

\* ts are the tokens that start in s, in their order.
AreTokensOf(ts, s) ==
    /\ Len(ts) = Cardinality(Starts(s))
    /\ \A p \in Starts(s) : ts[Cardinality({ q \in Starts(s) : q <= p })] = TokenAt(s, p)

\* Comments become blanks.
Uncommented(s) == [p \in DOMAIN s |-> IF p \in CodeOf(s) \/ s[p] = NewLine THEN s[p] ELSE " "]

\* What the lexer should see: a file without its comments, or a text as it is,
\* which Compiler::process hands to the lexer directly.
Meant == IF source = "file" THEN Append(Uncommented(given), NewLine) ELSE given

\* A line has at most one #, and the text does not begin with a comment.
Plain ==
    source = "file" =>
        /\ \A p, q \in DOMAIN given :
              p < q /\ given[p] = Hash /\ given[q] = Hash
                  => \E m \in p .. q : given[m] = NewLine
        /\ \A p \in DOMAIN given :
              given[p] = Hash => \E m \in 1 .. p - 1 : given[m] \notin Blanks

Ended == Meant # <<>> => Last(Meant) \notin AlphaNumeric

-----------------------------------------------------------------------------
(* Properties. *)

TypeOK ==
    /\ i \in 1 .. Len(text) + 1
    /\ line_start_pos \in 1 .. i
    /\ comment_flag \in BOOLEAN
    /\ \A n \in DOMAIN ranges : ranges[n].to \in ranges[n].from .. Len(text) + 1
    /\ at \in 1 .. Len(code) + 1
    /\ AllFrom(word, 1, AlphaNumeric)
    /\ status \in {"reading", "scanning", "lexing", "lexed", "thrown"}

\* The walk back over the blanks in front of a comment does not look at where
\* the line began: still a range never reaches into another line, and begins
\* with its own, unless it has left the text.
WithinLine(r) ==
    /\ r.from = 1 \/ text[r.from - 1] = NewLine
    /\ \A m \in r.from .. r.to - 1 : text[m] # NewLine
LeftText(r) == r.from = 1 /\ r.to = Len(text) + 1
WithinLines == \A n \in DOMAIN ranges : WithinLine(ranges[n]) \/ LeftText(ranges[n])

\* No word is lost, glued to its neighbour, cut in two or taken out of a
\* comment on the way through lines, ranges and pieces; only a wrong number
\* is refused.
LexedRight ==
    Plain /\ Ended =>
        /\ status = "lexed" => AreTokensOf(tokens, Meant)
        /\ status = "lexed" => \A w \in Words(Meant) : ~WrongNumber(w)
        /\ status = "thrown" => \E w \in Words(Meant) : WrongNumber(w)

\* A file that is there is read to its end, and every text becomes tokens or
\* an exception.
Ends == source # "missing" ~> status \in {"lexed", "thrown"}
=============================================================================
