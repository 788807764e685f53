---------------------------- MODULE MCLifecycle ----------------------------
EXTENDS Lifecycle

\* An icon of two pieces; on file it is missing, short, whole or another one.
TwoPieces == <<1, 2>>
Others == {<<>>, <<1>>, <<1, 2>>, <<1, 3>>}
=============================================================================
