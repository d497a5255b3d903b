------------------------- MODULE MCExactExploration -------------------------
(* Instances of the exploration.  The aspect ratios are written out for    *)
(* speed; the assumption evaluates, once, that they are what the model of  *)
(* AspectRatioIterator enumerates from 1 tile on.                          *)
EXTENDS ExactExploration, SequencesExt

A == INSTANCE AspectRatioIterator WITH
  StartNums <- {}, MaxNum <- 0, num <- 0, factors <- <<>>, it <- 0,
  first <- 0, visited <- {}

MCRatios == <<<<0,0>>, <<0,1>>, <<1,0>>, <<0,2>>, <<2,0>>, <<0,3>>, <<3,0>>,
              <<1,1>>, <<0,4>>, <<4,0>>, <<0,5>>, <<5,0>>, <<1,2>>, <<2,1>>,
              <<0,6>>, <<6,0>>>>

ASSUME EnumeratedRatios ==
  MCRatios = FlattenSeq([i \in 1..7 |-> A!factorize(i)])
=============================================================================
