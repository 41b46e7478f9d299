---------------------------- MODULE MCLineReader ----------------------------
(* LineReader with messages that end a line, that do not, that hold two    *)
(* lines, and that are longer than a line may be.                          *)
EXTENDS LineReader

CONSTANTS a, b, c, nl, junk

MCChars == {a, b, c, nl}

MCTexts == {<<a>>, <<b, nl>>, <<c, nl, a>>, <<a, b, c, a>>}

MCGarbage == {junk, NUL}
=============================================================================
