------------------------------- MODULE RowText ------------------------------
(***************************************************************************)
(* The text of rows and fields: every fetched row goes through the         *)
(* handler's stream m_cSStream into m_szResult, and from there to the      *)
(* script.  Both are kept between natives, so what one native leaves       *)
(* behind another may deliver.  The pointers are those of ResultSet.       *)
(*                                                                         *)
(* A text is a sequence of symbols; NULL columns read "NULL".  A row is a  *)
(* sequence of columns.  Digit stands for all the digits; the signs,       *)
(* points and exponents that a float may be written with are left out.     *)
(***************************************************************************)
EXTENDS ResultSet, SequencesExt

CONSTANTS
    Symbols,             \* what texts are made of
    Delimiters,          \* what scripts pass to mysql_fetch_row_format
    CellNumbers          \* texts of numbers that fit into a cell

Digit == "7"
Break == "nl"
Space == " "
IsSpace(c) == c \in {Break, Space}

\* A result of the library has a column at least.
ASSUME TextAssumption ==
    /\ Space \in Symbols
    /\ Delimiters \subseteq Seq(Symbols)
    /\ CellNumbers \subseteq Seq({Digit})
    /\ Contents \subseteq Seq(Seq(Symbols)) \ {<<>>}

VARIABLES
    m_cSStream,          \* the unread text of the stream
    good,                \* stream.good(): neither end of file nor failure
    m_szResult,
    plain,               \* only plain rows, fetched with plain delimiters
    native, found,       \* the last native that fetched, did it have a row
    answer, wanted       \* what it gave the script; what the row says

stream == <<m_cSStream, good, m_szResult>>
asked  == <<plain, native, found, answer, wanted>>

vars == <<resultVars, stream, asked>>

\* The text of NULL, whose last character can be cut off.
NullText == <<"NUL", "L">>

Nothing == [ok |-> FALSE, text |-> <<>>]

Given(text) == [ok |-> TRUE, text |-> text]

\* A number that is not in the text.
OtherNumber == [ok |-> TRUE, text |-> <<"other">>]

Init ==
    /\ ResultInit
    /\ m_cSStream = <<>>
    /\ good = TRUE
    /\ m_szResult = <<>>
    /\ plain = TRUE
    /\ native = "none"
    /\ found = FALSE
    /\ answer = Nothing
    /\ wanted = Nothing

-----------------------------------------------------------------------------
(***************************************************************************)
(* std::stringstream.                                                      *)
(***************************************************************************)

\* stream << text: nothing once the stream is not good.
Put(text) == IF good THEN m_cSStream \o text ELSE m_cSStream

\* getline(stream, line) from good unread text: up to a line break.
Line(text) ==
    LET k == SelectInSeq(text, LAMBDA c : c = Break) IN
    IF k = 0 THEN [got |-> text, rest |-> <<>>, good |-> FALSE]
    ELSE [got |-> SubSeq(text, 1, k - 1),
          rest |-> SubSeq(text, k + 1, Len(text)), good |-> TRUE]

\* Where stream >> begins, white space skipped; 0 if there is nothing else.
WordStart(text) == SelectInSeq(text, LAMBDA c : ~IsSpace(c))

\* stream >> word: skips white space, then takes a word if there is one.
Word(text, old) ==
    LET from == WordStart(text)
        end  == SelectInSubSeq(text, from, Len(text), IsSpace)
    IN  IF from = 0 THEN [got |-> old, rest |-> <<>>, good |-> FALSE]
        ELSE IF end = 0
        THEN [got |-> SubSeq(text, from, Len(text)), rest |-> <<>>,
              good |-> FALSE]
        ELSE [got |-> SubSeq(text, from, end - 1),
              rest |-> SubSeq(text, end, Len(text)), good |-> TRUE]

(***************************************************************************)
(* getline(m_cSStream, m_szResult); m_cSStream >> m_szResult.  When        *)
(* getline meets the end of the stream the second does nothing; after a    *)
(* line break it replaces the line by the first word of what follows.      *)
(***************************************************************************)
Extract(text) ==
    LET line == Line(text) IN
    IF ~good THEN [got |-> m_szResult, rest |-> text, good |-> FALSE]
    ELSE IF line.good THEN Word(line.rest, line.got)
    ELSE line

-----------------------------------------------------------------------------
(***************************************************************************)
(* FetchRow and the natives that call it.                                  *)
(***************************************************************************)

\* The columns of a row, a delimiter after each.
Written(columns, d) == FlattenSeq([i \in DOMAIN columns |-> columns[i] \o d])

\* The text of a row, a delimiter between any two columns.
Joined(columns, d) ==
    LET text == Written(columns, d)
    IN  SubSeq(text, 1, Len(text) - Len(d))

\* This step's fetch found a row, and its columns.
Found == fault' = "none" /\ given' # NULL

Columns == rows[given'.res][given'.at]

\* A text and a delimiter that nothing of goes astray.
IsPlain(text, d) == Len(d) = 1 /\ ~Contains(text, Break)

\* Mutant: m_cSStream.clear() is forgotten.
StreamAfterRow(x) == x.good

\* m_cSStream.clear() in FetchRow.
ClearAfterRow(x) == TRUE

(***************************************************************************)
(* What FetchRow returns, and what it leaves in m_szResult and the stream. *)
(* Only a text that is not empty gets as far as clear() and erase().       *)
(***************************************************************************)
FetchRow(d) ==
    LET x == Extract(Put(Written(Columns, d))) IN
    IF ~Found
    THEN [ret |-> NullText, kept |-> m_szResult, rest |-> m_cSStream,
          good |-> good]
    ELSE IF x.got = <<>>
    THEN [ret |-> NullText, kept |-> <<>>, rest |-> x.rest, good |-> x.good]
    ELSE [ret |-> Front(x.got), kept |-> Front(x.got), rest |-> x.rest,
          good |-> ClearAfterRow(x)]

\* The stream after FetchRow; the native gave m_szResult away, or kept it.
Leave(f, taken) ==
    /\ m_cSStream' = f.rest
    /\ good' = f.good
    /\ m_szResult' = IF taken THEN <<>> ELSE f.kept

\* History: which native it was, and what it was given to fetch.
Asked(n, d) ==
    /\ native' = n
    /\ found' = Found
    /\ plain' = (plain /\ (Found => IsPlain(Written(Columns, d), d)))

MysqlFetchRowFormat(d) ==
    LET f    == FetchRow(d)
        text == Joined(Columns, d)
    IN  /\ FetchNext
        /\ Leave(f, f.ret # NullText)
        /\ answer' = IF f.ret # NullText THEN Given(f.ret) ELSE Nothing
        /\ Asked("row", d)
        /\ wanted' = IF Found /\ text # NullText THEN Given(text) ELSE Nothing

\* IsNumeric and not empty.
Numeric(text) == text # <<>> /\ \A i \in DOMAIN text : text[i] = Digit

\* ctot<cell>: stream >> int fails when the number is too large.
ToCell(text) == IF text \in CellNumbers THEN Given(text) ELSE OtherNumber

\* The first place from there on that is no digit, or 0.
DigitsEnd(text, from) == SelectInSubSeq(text, from, Len(text), LAMBDA c : c # Digit)

\* ctot<float>: stream >> float skips white space and takes the digits that
\* follow.  Are there none it fails, and the float was never set.
ToFloat(text) ==
    LET from   == WordStart(text)
        end    == DigitsEnd(text, from)
        digits == SubSeq(text, from, IF end = 0 THEN Len(text) ELSE end - 1)
    IN  IF from = 0 \/ digits = <<>> THEN OtherNumber ELSE Given(digits)

\* Mutant: the number stays in m_szResult.
NeverTaken(text) == FALSE

\* mysql_fetch_int clears m_szResult only if it is a number.
IntTaken(text) == Numeric(text)

\* -1 if it is not.
MysqlFetchInt ==
    LET f    == FetchRow(<<Space>>)
        text == Joined(Columns, <<Space>>)
    IN  /\ FetchNext
        /\ Leave(f, IntTaken(f.kept))
        /\ answer' = IF Numeric(f.kept) THEN ToCell(f.kept) ELSE Nothing
        /\ Asked("int", <<Space>>)
        /\ wanted' = IF Found /\ text \in CellNumbers /\ Numeric(text)
                     THEN Given(text) ELSE Nothing

\* 1 and a float whatever the text, unless it is empty.
MysqlFetchFloat ==
    LET f    == FetchRow(<<Space>>)
        text == Joined(Columns, <<Space>>)
    IN  /\ FetchNext
        /\ Leave(f, f.kept # <<>>)
        /\ answer' = IF f.kept # <<>> THEN ToFloat(f.kept) ELSE Nothing
        /\ Asked("float", <<Space>>)
        /\ wanted' = IF Found /\ Numeric(text) THEN Given(text) ELSE Nothing

\* mysql_retrieve_row moves to the next row without any text.
MysqlRetrieveRow ==
    /\ FetchNext
    /\ UNCHANGED <<stream, asked>>

-----------------------------------------------------------------------------
(***************************************************************************)
(* FetchField and mysql_fetch_field_row.  The script names a column of the *)
(* result or one it does not have; that one reads as an empty text.        *)
(***************************************************************************)
Field(c) ==
    LET columns == rows[m_stRow.res][m_stRow.at]
    IN  IF c \in DOMAIN columns THEN columns[c] ELSE <<>>

\* Mutant: the stream is not cleared after a field.
StreamAfterField(x) == x.good

\* m_cSStream.clear() at the end of FetchField.
ClearAfterField(x) == TRUE

\* Refused, the native hands out what m_szResult holds from before.
MysqlFetchFieldRow(c) ==
    /\ FetchField
    /\ fault' = "none"
    /\ native' = "field"
    /\ m_szResult' = <<>>
    /\ found' = ReadsField
    /\ IF ReadsField
       THEN LET x == Extract(Put(Field(c))) IN
            /\ m_cSStream' = x.rest
            /\ good' = ClearAfterField(x)
            /\ answer' = Given(x.got)
            /\ wanted' = Given(Field(c))
            /\ plain' = (plain /\ ~Contains(Field(c), Break))
       ELSE /\ answer' = Given(m_szResult)
            /\ UNCHANGED <<m_cSStream, good, wanted, plain>>

\* A fault in FetchField, before the stream is reached.
FieldFault ==
    /\ FetchField
    /\ fault' # "none"
    /\ UNCHANGED <<stream, asked>>

-----------------------------------------------------------------------------
\* The constructor's new stream.
NewHandler ==
    /\ MysqlConnect
    /\ m_cSStream' = <<>> /\ good' = TRUE
    /\ m_szResult' = <<>>
    /\ plain' = TRUE
    /\ native' = "none"
    /\ found' = FALSE
    /\ answer' = Nothing /\ wanted' = Nothing

\* The natives that have nothing to do with text.
Textless ==
    /\ \/ Disconnect \/ WorkerDrain \/ Overlap \/ Connect \/ MysqlClose
       \/ MysqlFreeResult \/ MysqlStoreResult
       \/ MysqlNumRows \/ MysqlFetchField
    /\ UNCHANGED <<stream, asked>>

Next ==
    \/ NewHandler
    \/ Textless
    \/ \E d \in Delimiters : MysqlFetchRowFormat(d)
    \/ MysqlFetchInt
    \/ MysqlFetchFloat
    \/ MysqlRetrieveRow
    \/ \E c \in 0 .. 2 : MysqlFetchFieldRow(c)
    \/ FieldFault

Spec == Init /\ [][Next]_vars

-----------------------------------------------------------------------------
(***************************************************************************)
(* Properties                                                              *)
(***************************************************************************)

(***************************************************************************)
(* Nothing of one row is left in m_cSStream for the next, and the stream   *)
(* is good again, between any two natives: as long as every text was plain *)
(* (no line break) and every delimiter one character.  After one row that  *)
(* is not, leftovers and a stream that drops everything are possible.      *)
(***************************************************************************)
NoLeftover == plain => m_cSStream = <<>> /\ good

(***************************************************************************)
(* Under the same condition a native that has a row gives the script what  *)
(* the row says, whatever was fetched before, in whatever way:             *)
(* mysql_fetch_row_format its columns between delimiters, unless that      *)
(* reads "NULL", mysql_fetch_field_row the field, mysql_fetch_int and      *)
(* mysql_fetch_float the number, if the row is one column of digits and,   *)
(* for the first, a cell can hold it.  Otherwise mysql_fetch_row_format    *)
(* and mysql_fetch_int give nothing, but that the latter gives some number *)
(* for one too large; of what mysql_fetch_float makes of another text (the *)
(* number it begins with, or a float never set) nothing is claimed.        *)
(***************************************************************************)
NativesGiveTheRow ==
    plain /\ found =>
       /\ wanted.ok => answer = wanted
       /\ ~wanted.ok /\ native = "row" => answer = Nothing
       /\ ~wanted.ok /\ native = "int" => answer \in {Nothing, OtherNumber}

(***************************************************************************)
(* mysql_fetch_int looks at m_szResult whether or not FetchRow found a     *)
(* row, and it is not the only native that leaves text there: still it     *)
(* never returns a number when there is no row, whatever the texts were.   *)
(***************************************************************************)
IntNeedsRow == (native = "int" /\ ~found) => ~answer.ok
=============================================================================
