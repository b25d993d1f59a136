\* Every class with every pair of its sample values; a stanza may be padded once.
SPECIFICATION Spec
INVARIANTS Conveyed UniquelyRecognised Answered
