\* All short tag blocks and values, all short lines and some pairs of lines, cut anywhere.
CONSTANTS
    Streams <- AllStreams
    RAW_MSG <- Rewrite
    dropped = dropped
    Dropped = dropped
    AccountTag <- SenderTag
    Before <- Less
    MAX_BUFFER_SIZE = 10
    max_tag_data = 10
SPECIFICATION Spec
INVARIANTS InOrder SplitReversible TagsArrive
CHECK_DEADLOCK FALSE
