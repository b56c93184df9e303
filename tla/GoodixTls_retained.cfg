CONSTANTS
  Images = {img1}
  NoImage = NoImage
SPECIFICATION TlsSpec
PROPERTY RetainedSessionWorks
