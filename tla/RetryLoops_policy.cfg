CONSTANTS
  Statuses = {200, 204, 304, 404, 422, 499, 500, 503}
  InitialBackoff = 500
  MaxBackoff = 30000
  Reconnect = TRUE
SPECIFICATION Spec
INVARIANT RetriesOnlyTransient
