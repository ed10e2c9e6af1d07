----------------------------- MODULE MCFraming -----------------------------
EXTENDS Framing, Bitwise
MCBitXor(a, b) == a ^^ b
MCMessages == {<<<<1>>>>, <<<<2>>, <<3, 1>>>>, <<<<0, 3>>, <<1>>, <<2, 2>>>>}
=============================================================================
