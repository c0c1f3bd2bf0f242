\* Two guest processes; numbers 1 to 4 for five paths that are not links, so that
\* the numbers run out.
SPECIFICATION Spec
CONSTANTS
  root = root
  link = link
  file1 = file1
  file2 = file2
  dir = dir
  inner = inner
  Guests = {g1, g2}
  Paths <- MCPaths
  Root = root
  Entries <- MCEntries
  Symlinks = {link}
  Volatile = {file2}
  Top = 5
  Sizes = {1, 2}
INVARIANTS TypeOK OneNumberPerPath NumbersKeepMeaning ListingIsComplete
