--------------------------- MODULE MCConfigStore ----------------------------
(* Instances of ConfigStore for TLC, with texts of config/config.ini and   *)
(* the awkward cases of the parser.                                        *)
EXTENDS ConfigStore, TLC

(* Floats: 0 and 1.5, the latter in tenths; 1e-7, which "%.6f" prints as 0;*)
(* and infinity.                                                           *)
Tiny == 7
Infinity == 99

MCTexts == {"true", "false", "0", "1", "8080", "1 # one", "1x", "1.5", "1.500000", "0.0.0.0",
            "0.000000", "1e99.", "inf", "server", "#all"}
MCTrim == [t \in MCTexts |-> CASE t = "1 # one" -> "1" [] t = "#all" -> "none" [] OTHER -> t]
MCDotted == {"1.5", "1.500000", "0.0.0.0", "0.000000", "1e99."}
MCAtoi == [t \in MCTexts |-> CASE t \in {"1", "1x", "1 # one", "1.5", "1.500000", "1e99."} -> 1
                               [] t = "8080" -> 8080 [] OTHER -> 0]
MCAtof == [t \in MCTexts |-> CASE t \in {"1.5", "1.500000"} -> 15
                               [] t = "1e99." -> Infinity [] OTHER -> 0]
MCInts == {0, 1, 8080}
MCFloats == {0, 15, Tiny, Infinity}
MCIntText == [n \in MCInts |-> CASE n = 0 -> "0" [] n = 1 -> "1" [] n = 8080 -> "8080"]
MCFloatText == [f \in MCFloats |-> CASE f = 15 -> "1.500000" [] f = Infinity -> "inf"
                                      [] OTHER -> "0.000000"]
MCCut == [t \in MCTexts |-> CASE t = "1.500000" -> {"1", "1.5"} [] t = "1x" -> {"1"}
                              [] OTHER -> {}]
MCPlain == {"server"}

L(k, t) == [key |-> k, text |-> t]
MCFiles == {<<L("port", "1x"), L("host", "0.0.0.0")>>, <<L("port", "8080"), L("port", "1.5")>>,
            <<L("host", "1 # one"), L("port", "server")>>, <<L("host", "1e99.")>>}
OneFile == {<<L("host", "0.0.0.0")>>}
MCSetValues == {String("server"), String("#all"), Number("INT", 1), Number("FLOAT", 15), Number("FLOAT", Tiny),
                Number("FLOAT", Infinity)}
NoSetValues == {}
=============================================================================
