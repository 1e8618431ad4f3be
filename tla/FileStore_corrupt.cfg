\* close() while the flush thread is at work.
CONSTANTS
    Mapping = {a, b}
    Daemon = {daemon}
    Closer = {main}
    Overlap = TRUE
SPECIFICATION FileSpec
INVARIANT FileIsReadable
