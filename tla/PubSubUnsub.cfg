CONSTANTS
  Topics = {t1}
  Entities = {e1, e2}
  Functions = {f1}
  NoTopic = NoTopic
  MaxSubs = 2
  MaxDepth = 1
SPECIFICATION Spec
INVARIANT CallbacksMayUnsubscribe
CHECK_DEADLOCK FALSE
