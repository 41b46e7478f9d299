--------------------------- MODULE MCSerialLogger ---------------------------
(* SerialLogger with a message that ends its line, one that does not, and  *)
(* one the port does not print.                                            *)
EXTENDS SerialLogger

CONSTANTS a, b, q, nl

MCChars == {a, b, q, nl}

MCTexts == {<<a, nl>>, <<b>>, <<q, nl>>}

MCLoudTexts == {<<a, nl>>, <<b>>}
=============================================================================
