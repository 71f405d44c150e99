SPECIFICATION FairSpec
CONSTANTS
    Clients = {c1, c2, c3}
    Requests <- LongRequests
    Library <- Start
    MaxRunning = 3
    bookA = bookA
    bookB = bookB
    chapA = chapA
    chapB = chapB
    pageA = pageA
    pageB = pageB
    pageC = pageC
    ribbon1 = ribbon1
    newBooks = {book1, book2, book3}
    newChapters = {chap1, chap2, chap3}
    newPages = {page1, page2, page3}
    newRibbons = {ribbon2, ribbon3, ribbon4}
    dear = dear
    hello = hello
    again = again
    Books <- MCBooks
    Chapters <- MCChapters
    Pages <- MCPages
    Ribbons <- MCRibbons
    Nowhere = Nowhere
    Null = Null
    Contents = {dear, hello, again}
    DearDiary = dear
    CountWords <- MCCountWords
CHECK_DEADLOCK FALSE
PROPERTIES
    EveryRequestEnds
