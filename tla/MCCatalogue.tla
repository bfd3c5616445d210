---------------------------- MODULE MCCatalogue ----------------------------
(* Small instances of Catalogue for TLC. *)
EXTENDS Catalogue

CONSTANTS p, v

FileRow(kind, price, was, cost) ==
    [kind |-> kind, price |-> price, was |-> was, cost |-> cost]

\* A price file with a price, an old price and a cost, a new old price alone, an
\* increase by 1, and a cost file.
SomeUploads ==
    {FileRow("price", 2, 3, 2), FileRow("price", Keep, 3, Keep),
     FileRow("adjust", 1, Keep, Keep), FileRow("cost", Keep, Keep, 2)}
SomeEdits == {[price |-> 2, was |-> 3, cost |-> 2]}
=============================================================================
