SPECIFICATION Spec
INVARIANT
    UnchangedMeansTaken
CONSTANTS
    f1 = f1
    f2 = f2
    Fetcher = {f1}
    Path <- ThreeFiles
    MaxVersion = 2
    FilesOf <- LosesOne
    Committed <- OneMixed
    Alarming = {1}
    MaxMishaps = 0
