----------------------------- MODULE MCByteOrder ------------------------------
(* Small instances of ByteOrder for TLC: words of two bytes.               *)
EXTENDS ByteOrder

MCBuild(h, m, d) == [big |-> h, macro |-> m, dppc |-> d]
PpcBig == MCBuild(TRUE, FALSE, FALSE)
PpcLittle == MCBuild(FALSE, TRUE, FALSE)
DppcClang == MCBuild(FALSE, TRUE, TRUE)
DppcGcc == MCBuild(FALSE, FALSE, TRUE)
DppcBig == MCBuild(TRUE, FALSE, TRUE)

AllBuilds == {PpcBig, PpcLittle, DppcClang, DppcGcc, DppcBig}
BigImages == {PpcBig, DppcClang, DppcGcc}

MCMagic == <<0, 1>>
MCSizes == {<<0, 0>>, <<1, 0>>}
MCWords == {<<0, 1>>, <<1, 1>>, <<1, 0>>}
=============================================================================
