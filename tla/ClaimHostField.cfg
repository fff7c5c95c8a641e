\* Requests with other bytes that spell Host: before the field.
SPECIFICATION MCSpec
INVARIANT HostHeaderFound
