CONSTANTS
    Ready = {"m1", "m2"}
    PollFailureLimit = 2
    ReconnectLimit = 2
    StablePolls = 2
SPECIFICATION Spec
PROPERTY ForgetIsFinal
