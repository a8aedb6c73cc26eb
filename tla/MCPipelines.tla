---------------------------- MODULE MCPipelines -----------------------------
EXTENDS Pipelines, TLC
CONSTANTS look, write
Step(tool, quotes, sink) == [tool |-> tool, quotes |-> quotes, sink |-> sink]
TheDrafts == {
  <<Step(look, {}, {}), Step(write, {1}, {})>>,
  <<Step(look, {}, {}), Step(write, {1}, {}), Step(write, {2}, {})>>,
  <<Step(look, {}, {}), Step(look, {1}, {})>>,
  <<Step(look, {}, {}), Step(write, {}, {1})>>,
  <<Step(write, {2}, {}), Step(look, {}, {})>>}
=============================================================================
