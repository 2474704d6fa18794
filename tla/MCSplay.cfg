SPECIFICATION Spec
CONSTANTS
    Width = 4
    MaxLive = 4
PROPERTIES
    IsSet
