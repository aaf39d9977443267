----------------------------- MODULE MCRowText -----------------------------
(***************************************************************************)
(* Rows of one and two columns: a number, one too large for a cell, a      *)
(* word, NULL, an empty text, and a text of two lines.                     *)
(***************************************************************************)
EXTENDS RowText

Number   == <<"7">>
Large    == <<"7", "7">>
Letter   == <<"a">>
Empty    == <<>>
TwoLines == <<"7", "nl", "a">>

MCContents ==
    {<<Number>>, <<Large>>, <<Letter>>, <<NullText>>, <<Empty>>, <<TwoLines>>,
     <<Number, Number>>, <<TwoLines, Number>>}

MCSymbols == {"7", "a", "nl", "NUL", "L", "|", " "}

MCCellNumbers == {Number}

MCDelimiters == {<<"|">>, <<" ">>, <<>>}
=============================================================================
