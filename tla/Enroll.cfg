CONSTANTS
    Own = own
    Dkms = dkms
    other = other
    hash = hash
    Certs <- AllCerts
    Hashes <- AllHashes
    Passwords = {p1, p2}
    RequestSize <- RequestSizes
SPECIFICATION EnrollSpec
INVARIANTS
    EnrollTypeOK
    PendingIsWaiting
PROPERTY
    NothingWaitingLost
