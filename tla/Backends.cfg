SPECIFICATION Spec
CONSTANTS
    REMOTE_LLM_TIMEOUT_SECONDS = 30
    OLLAMA_TIMEOUT_SECONDS = 120
    ATTEMPTS = 3
    WAIT_MIN = 1
    WAIT_MAX = 10
    MOCK_DELAY = 1
    MaxOps = 3
INVARIANTS
    CallBounded
    ReportsWholeWait
