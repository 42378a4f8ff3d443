---------------------------- MODULE MCSimWorker ----------------------------
(* SimWorker for TLC: both strategies weigh the same, and a quote is one for  *)
(* each vote it can make.                                                    *)
EXTENDS SimWorker
EqualWeights == <<1, 1>>
ThreeQuotes == {<<0, 0>>, <<3, 1>>, <<1, 3>>}
=============================================================================
