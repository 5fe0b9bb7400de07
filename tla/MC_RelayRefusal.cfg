SPECIFICATION Spec
CONSTANTS
    MaxCalls = 2
    Endpoints = {"realtime"}
    Faults = {}
PROPERTIES
    QuotaErrorKeepsConnection
CHECK_DEADLOCK FALSE
