-------------------------- MODULE MCMessageObjects --------------------------
EXTENDS MessageObjects

MCIds == {0, 300}
MCTexts == {<<>>, <<65>>}

\* A Query cut short in its id and in its questioner; an Answer, whose last
\* field a Query does not know; a field 4 that is a number; a tag 0.
MCInputs == {<<8>>, <<8, 172, 2, 18, 2, 65>>, <<8, 1, 18, 0, 26, 1, 65, 34, 1, 65>>,
             <<32, 7>>, <<8, 1, 0, 18>>}
=============================================================================
