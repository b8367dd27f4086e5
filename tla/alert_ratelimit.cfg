SPECIFICATION Spec
INVARIANT FailurePaged
