\* A connected Redis that refuses the subscription.
SPECIFICATION Spec
CONSTANT MAX_REDIS_RETRIES = 12
PROPERTY RetriesStop
CHECK_DEADLOCK FALSE
