SPECIFICATION FairSpec
CONSTANTS
    InitialUpload = 2
    InitialDownload = 1
    FrameData = 2
    SeqModulus = 5
INVARIANT UploadCreditConserved
INVARIANT SequenceUnbroken
INVARIANT NoLostWakeup
PROPERTY UploaderEnds
CHECK_DEADLOCK FALSE
