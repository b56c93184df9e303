CONSTANTS
  Images = {img1, img2}
  NoImage = NoImage
SPECIFICATION TlsFairSpec
INVARIANTS ThreadIsJoined JoinsAreShort VerdictIsTheServers ImageIsTheSensors
PROPERTY HandshakeEnds
