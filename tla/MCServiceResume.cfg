CONSTANT Slices = 2
SPECIFICATION FairSpec
PROPERTY ResumeRestartsCycles
