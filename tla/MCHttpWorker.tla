---------------------------- MODULE MCHttpWorker ----------------------------
(* Small instances of HttpWorker for TLC. *)
EXTENDS HttpWorker, TLC

Symmetry == Permutations(Socks)

(* Values for MaxReqs: one request or two of each client, or two of the    *)
(* first (to pipeline) and one of any other (runs without symmetry only).  *)
OneEach == [s \in Socks |-> 1]
TwoEach == [s \in Socks |-> 2]
TwoOfTheFirst == [s \in Socks |-> IF s = (CHOOSE t \in Socks : TRUE) THEN 2 ELSE 1]

(* Values for Traffics *)
Serial == [kinds |-> {"text", "large", "simple", "close", "malformed", "uploadClose"},
           parts |-> 2, pipelined |-> FALSE, backpressure |-> TRUE]
Pipelined == [kinds |-> {"text", "large", "close"},
              parts |-> 1, pipelined |-> TRUE, backpressure |-> FALSE]
SerialAndPipelined == {Serial, Pipelined}
PipelinedGpu == {[Pipelined EXCEPT !.kinds = {"gpu"}]}
PipelinedSimple == {[Pipelined EXCEPT !.kinds = {"text", "simple"}]}
OneGpuEach == {[Pipelined EXCEPT !.kinds = {"gpu"}, !.pipelined = FALSE]}
=============================================================================
