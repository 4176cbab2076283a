\* Eight questions, four options, two modules, one of them with a plugin.
SPECIFICATION FairSpec
CONSTANTS
    Unset = Unset
    Empty = Empty
    Root = Root
    None = None
    Questions <- MCQuestions
    Options <- MCOptions
    Kids <- MCKids
    Boolean <- MCBoolean
    OptionValue <- MCOptionValue
    Texts <- MCTexts
    Default <- MCDefault
    Names <- MCNames
    OwnInputs <- MCOwnInputs
    PluginInputs <- MCPluginInputs
    Args = {"kernel", "master"}
    Handlers = {"kernel", "master"}
INVARIANT TypeOK
INVARIANT AskedInOrder
INVARIANT DumpedAsAnswered
PROPERTY EndsUnlessBack
\* The wizard ends.
CHECK_DEADLOCK FALSE
