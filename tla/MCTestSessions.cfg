\* The resource manager session's users and loop, and which session runs
\* is chosen by Init.
CONSTANTS
  ymir = ymir
  buri = buri
  ratatoskr = ratatoskr
SPECIFICATION Spec
INVARIANTS TypeOK SenderBeforePlayback
PROPERTIES ScenarioCompletes EveryUserHandled
\* Each session idles in serve_forever once every reply is dispatched.
CHECK_DEADLOCK FALSE
