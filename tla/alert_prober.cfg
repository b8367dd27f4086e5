SPECIFICATION FairSpec
CONSTANTS
  MaxAttempts = 3
  MaxChanges = 2
  MaxFaults = 2
INVARIANTS TypeOK TransientOutageQuiet LastingOutagePaged
PROPERTY OutagePagedAgain
