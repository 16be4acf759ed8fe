------------------------------ MODULE Terminal ------------------------------
(***************************************************************************)
(* What the console promises its callers: a grid of characters with a      *)
(* cursor.  A character appears at the cursor, lines that are full wrap,   *)
(* and below the last row the text moves up by one row and leaves an empty *)
(* one.                                                                    *)
(***************************************************************************)
EXTENDS Naturals

CONSTANTS Rows, Cols, Chars, None

VARIABLES text, row, col

TInit ==
    /\ text = [r \in 0 .. Rows - 1 |-> [c \in 0 .. Cols - 1 |-> None]]
    /\ row = 0 /\ col = 0

\* The cursor goes to the start of the next row; t is the text so far.
NextRow(t) ==
    /\ col' = 0
    /\ \/ row < Rows - 1 /\ row' = row + 1 /\ text' = t
       \/ /\ row = Rows - 1 /\ row' = row
          /\ text' = [r \in 0 .. Rows - 1 |->
                        IF r < Rows - 1 THEN t[r + 1] ELSE [c \in 0 .. Cols - 1 |-> None]]

Type(ch) ==
    LET t == [text EXCEPT ![row][col] = ch] IN
    \/ col < Cols - 1 /\ col' = col + 1 /\ row' = row /\ text' = t
    \/ col = Cols - 1 /\ NextRow(t)

Newline == NextRow(text)

\* '\r' moves the cursor to the first row; its column stays.
Home == row' = 0 /\ UNCHANGED <<text, col>>

TNext == (\E ch \in Chars : Type(ch)) \/ Newline \/ Home

TSpec == TInit /\ [][TNext]_<<text, row, col>>
=============================================================================
